----------------------------- MODULE Auth_proof -----------------------------
(***************************************************************************)
(* Sessions, sign-in and connections to apps, for any number of requests   *)
(* at once, any clock and any faults: what a revocation ends stays ended,  *)
(* a refresh token is traded once, what works once works once, and a       *)
(* connection stays its member's and usable.                               *)
(***************************************************************************)
EXTENDS SignIn, Sessions, AppConnections, FiniteSetTheorems, TLAPS

SessionSpec == SessionInit /\ [][SessionNext]_sessionVars

LEMMA AuthAtMostOne ==
    ASSUME NEW S, \A x, y \in S : x = y
    PROVE  Cardinality(S) <= 1
  <1>1. CASE S = {}
    BY <1>1, FS_EmptySet
  <1>2. CASE S # {}
    <2>1. PICK x : x \in S
      BY <1>2
    <2>2. S = {x}
      BY <2>1
    <2> QED
      BY <2>2, FS_Singleton
  <1> QED
    BY <1>1, <1>2

-----------------------------------------------------------------------------
(* The inductive invariant of the sessions. *)

(* Nothing carries a later second than the clock shows. *)
ClockOK ==
    /\ \A j \in Jti : iat[j] <= now
    /\ record.at <= now
    /\ \A h \in Handler : req[h].at <= now

(* What a handler has drawn is its own and not handed out yet; what it     *)
(* trades was handed out.                                                  *)
DrawnOK ==
    /\ \A h \in Handler :
        /\ req[h].pc \in {"swap", "store"} =>
               req[h].new \in Jti /\ iat[req[h].new] = -1 /\ req[h].at >= 0
        /\ req[h].pc \notin {"swap", "store"} => req[h].new = NoJti
        /\ req[h].pc \in {"found", "swap"} => req[h].old \in Issued
        /\ req[h].pc \notin {"found", "swap"} => req[h].old = NoJti
    /\ \A g, h \in Handler : req[g].new = req[h].new /\ req[g].new # NoJti => g = h

(* As long as no two revocations overlapped, the record covers all that    *)
(* any of them ended, and the next will be stamped no earlier.             *)
CoveredOK ==
    /\ cut \subseteq Issued
    /\ ~overlap =>
        /\ \A j \in cut : iat[j] <= record.at /\ j # record.except
        /\ \A h \in Handler : req[h].pc = "write" => record.at <= req[h].at
        /\ \A g, h \in Handler : req[g].pc \in Revoking \cup {"restore"} /\
                                 req[h].pc \in Revoking \cup {"restore"} => g = h

(* From the purge to the record only the row that is spared is left, or    *)
(* one that was missed, and every handler that mints is known to overlap.  *)
PurgedOK ==
    \A h \in Handler : req[h].pc \in {"record", "write"} =>
        /\ refresh \subseteq missed \cup {req[h].spare}
        /\ \A g \in Handler : req[g].pc \in Minting => g \in stale

(* Who trades a session that was ended overlapped the revocation, or found *)
(* a row that it missed.                                                   *)
HeldOK ==
    \A h \in Handler : req[h].pc \in Minting /\ req[h].old \in cut =>
        h \in stale \/ req[h].old \in missed

(* What a session was traded for was handed out before. *)
ParentOK == \A k \in Issued : parent[k] = NoJti \/ parent[k] \in Issued

Trades(h, j) == req[h].pc \in Minting /\ req[h].old = j

(* A session that was traded has no row and nobody holds it. *)
TradeOK ==
    \A j \in Jti \ doubled :
        /\ \A g, h \in Handler : Trades(g, j) /\ Trades(h, j) => g = h
        /\ \A k \in Issued : parent[k] = j =>
               /\ j \notin refresh
               /\ \A h \in Handler : ~Trades(h, j)
               /\ \A l \in Issued : parent[l] = j => k = l

SessionInv ==
    /\ SessionTypeOK /\ ClockOK /\ DrawnOK /\ CoveredOK /\ PurgedOK /\ RevokedIsPurged
    /\ HeldOK /\ TradeOK /\ ParentOK

ReqType == [pc : {"idle", "restore"} \cup Minting \cup Revoking,
            old : Jti \cup {NoJti}, new : Jti \cup {NoJti},
            spare : Jti \cup {NoJti}, at : -1..MaxTime]

LEMMA AuthIdleType == Idle \in ReqType
  BY SessionBounds DEF Idle, ReqType

LEMMA AuthSessionInit == SessionInit => SessionInv
  <1> SUFFICES ASSUME SessionInit PROVE SessionInv
    OBVIOUS
  <1> USE JtiAssumption, SessionBounds DEF SessionInit, Idle, NoRecord, NoJti, Issued
  <1>1. overlap \in BOOLEAN
    BY Zenon
  <1>2. SessionTypeOK
    BY <1>1 DEF SessionTypeOK, Minting, Revoking
  <1>3. ClockOK /\ DrawnOK
    BY DEF ClockOK, DrawnOK
  <1>4. CoveredOK /\ PurgedOK /\ RevokedIsPurged
    BY DEF CoveredOK, PurgedOK, RevokedIsPurged, Revoking
  <1>5. /\ \A j \in Jti : ~(iat[j] >= 0)
        /\ \A h \in Handler : req[h].pc \notin Minting
    BY DEF Minting
  <1>6. HeldOK
    BY <1>5 DEF HeldOK
  <1>7. TradeOK
    BY <1>5 DEF TradeOK, Trades
  <1>8. ParentOK
    BY <1>5 DEF ParentOK
  <1> QED
    BY <1>2, <1>3, <1>4, <1>6, <1>7, <1>8 DEF SessionInv

(* A handler begins to mint. *)
LEMMA AuthStart ==
    ASSUME SessionInv, NEW h \in Handler, SignedIn(h) \/ (\E j \in Jti : FindRefresh(h, j))
    PROVE  SessionInv'
  <1> USE JtiAssumption, SessionBounds DEF SessionInv, Issued, NoJti
  <1>1. /\ UNCHANGED <<now, status, refresh, iat, parent, record, cut, missed, overlap>>
        /\ UNCHANGED <<revokes, faults>>
        /\ req[h] = Idle /\ StartsMinting(h)
    BY DEF SignedIn, FindRefresh, Begin
  <1>2. \/ /\ req' = [req EXCEPT ![h] = [Idle EXCEPT !.pc = "checked"]] /\ doubled' = doubled
        \/ \E j \in refresh :
             /\ req' = [req EXCEPT ![h] = [Idle EXCEPT !.pc = "found", !.old = j]]
             /\ doubled' = IF \E g \in Handler : req[g].pc \in Minting /\ req[g].old = j
                           THEN doubled \cup {j} ELSE doubled
    BY DEF SignedIn, FindRefresh, Begin
  <1>11. /\ \A g \in Handler : g # h => req'[g] = req[g]
         /\ req'[h].new = NoJti /\ req'[h].spare = NoJti /\ req'[h].at = -1
         /\ doubled \subseteq doubled' /\ doubled' \subseteq Jti
         /\ req' \in [Handler -> ReqType]
    <2>1. CASE req' = [req EXCEPT ![h] = [Idle EXCEPT !.pc = "checked"]] /\ doubled' = doubled
      BY <2>1 DEF Idle, SessionTypeOK, ReqType, Minting
    <2>2. CASE \E j \in refresh :
                 /\ req' = [req EXCEPT ![h] = [Idle EXCEPT !.pc = "found", !.old = j]]
                 /\ doubled' = IF \E g \in Handler : req[g].pc \in Minting /\ req[g].old = j
                               THEN doubled \cup {j} ELSE doubled
      <3>1. PICK j \in refresh :
                 /\ req' = [req EXCEPT ![h] = [Idle EXCEPT !.pc = "found", !.old = j]]
                 /\ doubled' = IF \E g \in Handler : req[g].pc \in Minting /\ req[g].old = j
                               THEN doubled \cup {j} ELSE doubled
        BY <2>2
      <3>2. j \in Jti /\ doubled \subseteq doubled' /\ doubled' \subseteq Jti
        BY <3>1 DEF SessionTypeOK
      <3>3. [Idle EXCEPT !.pc = "found", !.old = j] \in ReqType
        BY <3>2, AuthIdleType DEF ReqType, Minting
      <3> QED
        BY <3>1, <3>2, <3>3 DEF SessionTypeOK, ReqType, Idle
    <2> QED
      BY <1>2, <2>1, <2>2
  <1>12. \/ req'[h].pc = "checked" /\ req'[h].old = NoJti
         \/ /\ req'[h].pc = "found" /\ req'[h].old \in refresh /\ req'[h].old \in Issued
            /\ \A g \in Handler : req[g].pc \in Minting /\ req[g].old = req'[h].old =>
                  req'[h].old \in doubled'
    <2>1. CASE req' = [req EXCEPT ![h] = [Idle EXCEPT !.pc = "checked"]]
      BY <2>1 DEF Idle, SessionTypeOK
    <2>2. ASSUME NEW j \in refresh,
                 req' = [req EXCEPT ![h] = [Idle EXCEPT !.pc = "found", !.old = j]],
                 doubled' = IF \E g \in Handler : req[g].pc \in Minting /\ req[g].old = j
                            THEN doubled \cup {j} ELSE doubled
          PROVE  /\ req'[h].pc = "found" /\ req'[h].old \in refresh /\ req'[h].old \in Issued
                 /\ \A g \in Handler : req[g].pc \in Minting /\ req[g].old = req'[h].old =>
                      req'[h].old \in doubled'
      <3>1. req'[h].pc = "found" /\ req'[h].old = j
        BY <2>2 DEF Idle, SessionTypeOK
      <3> QED
        BY <2>2, <3>1 DEF SessionTypeOK
    <2> QED
      BY <1>2, <2>1, <2>2
  <1>3. /\ stale \subseteq stale' /\ stale' \subseteq Handler
        /\ (\E g \in Handler : req[g].pc \in {"record", "write"}) => h \in stale'
    BY <1>1 DEF StartsMinting, SessionTypeOK
  <1>4. SessionTypeOK'
    BY <1>1, <1>3, <1>11 DEF SessionTypeOK, ReqType
  <1>5. ClockOK'
    BY <1>1, <1>11 DEF ClockOK, SessionTypeOK
  <1>6. DrawnOK'
    BY <1>1, <1>11, <1>12 DEF DrawnOK, SessionTypeOK
  <1>7. CoveredOK'
    BY <1>1, <1>11, <1>12 DEF CoveredOK, Revoking
  <1>8. PurgedOK' /\ RevokedIsPurged'
    BY <1>1, <1>3, <1>11, <1>12 DEF PurgedOK, RevokedIsPurged
  <1>9. HeldOK'
    BY <1>1, <1>3, <1>11, <1>12 DEF HeldOK, RevokedIsPurged, CoveredOK, Minting
  <1>10. TradeOK'
    BY <1>1, <1>11, <1>12 DEF TradeOK, Trades, Idle, Minting, SessionTypeOK
  <1>13. ParentOK'
    BY <1>1 DEF ParentOK
  <1> QED
    BY <1>4, <1>5, <1>6, <1>7, <1>8, <1>9, <1>10, <1>13

(* A handler draws the session it will hand out, or finds the account is   *)
(* not active.                                                             *)
LEMMA AuthDraw ==
    ASSUME SessionInv, NEW h \in Handler, DrawFirst(h) \/ DrawNext(h)
    PROVE  SessionInv'
  <1> USE JtiAssumption, SessionBounds DEF SessionInv, Issued, NoJti
  <1>1. /\ UNCHANGED <<now, status, refresh, iat, parent, record, cut, missed, overlap, doubled>>
        /\ UNCHANGED <<revokes, faults>>
        /\ req[h].pc \in {"checked", "found"}
    BY DEF DrawFirst, DrawNext, histories
  <1>2. CASE req' = [req EXCEPT ![h] = Idle] /\ stale' = stale \ {h}
    <2>1. /\ req'[h] = Idle /\ \A g \in Handler : g # h => req'[g] = req[g]
          /\ req' \in [Handler -> ReqType] /\ stale' \subseteq Handler
          /\ \A g \in Handler : g # h /\ g \in stale => g \in stale'
      BY <1>2, AuthIdleType DEF SessionTypeOK, ReqType
    <2>2. SessionTypeOK'
      BY <1>1, <2>1 DEF SessionTypeOK, ReqType
    <2>3. ClockOK' /\ DrawnOK'
      BY <1>1, <2>1 DEF ClockOK, DrawnOK, Idle, SessionTypeOK
    <2>4. CoveredOK' /\ PurgedOK' /\ RevokedIsPurged'
      BY <1>1, <2>1 DEF CoveredOK, PurgedOK, RevokedIsPurged, Idle, Revoking, Minting
    <2>5. HeldOK' /\ TradeOK' /\ ParentOK'
      BY <1>1, <2>1 DEF HeldOK, TradeOK, ParentOK, Trades, Idle, Minting
    <2> QED
      BY <2>2, <2>3, <2>4, <2>5
  <1>3. CASE /\ Draw(h, IF req[h].pc = "checked" THEN "store" ELSE "swap") /\ stale' = stale
    <2>1. PICK j \in Jti \ (Issued \cup {req[g].new : g \in Handler}) :
             req' = [req EXCEPT ![h].pc = IF req[h].pc = "checked" THEN "store" ELSE "swap",
                                ![h].new = j, ![h].at = now]
      BY <1>3 DEF Draw
    <2>2. /\ \A g \in Handler : g # h => req'[g] = req[g]
          /\ req'[h].pc = IF req[h].pc = "checked" THEN "store" ELSE "swap"
          /\ req'[h].new = j /\ req'[h].at = now
          /\ req'[h].old = req[h].old /\ req'[h].spare = req[h].spare
          /\ req' \in [Handler -> ReqType]
      BY <1>1, <2>1 DEF SessionTypeOK, ReqType, Minting
    <2>3. /\ j \in Jti /\ iat[j] = -1 /\ now >= 0 /\ j # NoJti
          /\ \A g \in Handler : req[g].new # j
      BY <2>1 DEF SessionTypeOK
    <2>4. SessionTypeOK'
      BY <1>1, <1>3, <2>2 DEF SessionTypeOK, ReqType
    <2>5. ClockOK'
      BY <1>1, <2>2 DEF ClockOK, SessionTypeOK
    <2>6. DrawnOK'
      BY <1>1, <2>2, <2>3 DEF DrawnOK
    <2>7. CoveredOK' /\ PurgedOK' /\ RevokedIsPurged'
      BY <1>1, <1>3, <2>2 DEF CoveredOK, PurgedOK, RevokedIsPurged, Revoking, Minting
    <2>8. HeldOK' /\ TradeOK' /\ ParentOK'
      BY <1>1, <1>3, <2>2 DEF HeldOK, TradeOK, ParentOK, Trades, Minting
    <2> QED
      BY <2>4, <2>5, <2>6, <2>7, <2>8
  <1> QED
    BY <1>2, <1>3 DEF DrawFirst, DrawNext, Return, histories

(* The row is stored and the tokens are handed out. *)
LEMMA AuthIssue ==
    ASSUME SessionInv, NEW h \in Handler, Store(h) \/ Swap(h)
    PROVE  SessionInv'
  <1> DEFINE j == req[h].new
             o == req[h].old
  <1> USE JtiAssumption, SessionBounds DEF SessionInv, NoJti
  <1>1. /\ UNCHANGED <<now, status, record, cut, overlap, doubled, revokes, faults>>
        /\ req[h].pc \in {"swap", "store"}
        /\ j \in Jti /\ iat[j] = -1 /\ req[h].at \in 0..MaxTime /\ j # NoJti
        /\ o \in Jti \cup {NoJti}
        /\ req[h].pc = "swap" => o \in Issued
        /\ req[h].pc = "store" => o = NoJti
    BY DEF Store, Swap, Issue, DrawnOK, SessionTypeOK
  <1>2. /\ iat'[j] = req[h].at /\ parent'[j] = o
        /\ \A k \in Jti : k # j => iat'[k] = iat[k] /\ parent'[k] = parent[k]
        /\ iat' \in [Jti -> -1..MaxTime] /\ parent' \in [Jti -> Jti \cup {NoJti}]
    BY <1>1 DEF Store, Swap, Issue, SessionTypeOK
  <1>3. /\ req'[h] = Idle /\ \A g \in Handler : g # h => req'[g] = req[g]
        /\ req' \in [Handler -> ReqType] /\ stale' = stale \ {h}
    BY AuthIdleType DEF Store, Swap, Issue, Return, SessionTypeOK, ReqType
  <1>4. /\ j \notin Issued /\ Issued' = Issued \cup {j}
    <2>1. j \notin Issued /\ j \in Issued'
      BY <1>1, <1>2 DEF Issued
    <2>2. \A k \in Jti : k # j => (k \in Issued' <=> k \in Issued)
      BY <1>2 DEF Issued
    <2>3. Issued \subseteq Jti /\ Issued' \subseteq Jti
      BY DEF Issued
    <2> HIDE DEF j, o
    <2> QED
      BY <1>1, <2>1, <2>2, <2>3
  <1>5. /\ refresh' \subseteq refresh \cup {j} /\ (req[h].pc = "swap" => o \notin refresh')
        /\ missed \subseteq missed' /\ missed' \subseteq Jti
        /\ h \in stale \/ o \in missed => j \in missed'
    <2>1. o # j
      BY <1>1, <1>4
    <2> QED
      BY <1>1, <2>1 DEF Store, Swap, Issue, SessionTypeOK
  <1>6. SessionTypeOK'
    BY <1>1, <1>2, <1>3, <1>4, <1>5 DEF SessionTypeOK, ReqType
  <1>7. ClockOK'
    BY <1>1, <1>2, <1>3 DEF ClockOK, Idle, SessionTypeOK
  <1>15. /\ req'[h].pc = "idle" /\ req'[h].new = NoJti /\ req'[h].old = NoJti
         /\ \A g \in Handler : g # h => req[g].new # j
    BY <1>1, <1>3 DEF DrawnOK, Idle
  <1>8. DrawnOK'
    <2>1. ASSUME NEW g \in Handler, g # h
          PROVE  /\ req'[g] = req[g] /\ req[g].new # j
                 /\ req[g].new \in Jti => iat'[req[g].new] = iat[req[g].new]
                 /\ req[g].old \in Issued => req[g].old \in Issued'
      BY <1>2, <1>3, <1>4, <1>15, <2>1
    <2>2. \A g \in Handler :
            /\ req'[g].pc \in {"swap", "store"} =>
                 req'[g].new \in Jti /\ iat'[req'[g].new] = -1 /\ req'[g].at >= 0
            /\ req'[g].pc \notin {"swap", "store"} => req'[g].new = NoJti
            /\ req'[g].pc \in {"found", "swap"} => req'[g].old \in Issued'
            /\ req'[g].pc \notin {"found", "swap"} => req'[g].old = NoJti
      <3> TAKE g \in Handler
      <3>1. CASE g = h
        BY <1>15, <3>1
      <3>2. CASE g # h
        BY <2>1, <3>2 DEF DrawnOK
      <3> QED
        BY <3>1, <3>2
    <2>3. \A g, f \in Handler : req'[g].new = req'[f].new /\ req'[g].new # NoJti => g = f
      BY <1>3, <1>15 DEF DrawnOK
    <2> QED
      BY <2>2, <2>3 DEF DrawnOK
  <1>9. CoveredOK'
    BY <1>1, <1>2, <1>3, <1>4 DEF CoveredOK, Idle, Revoking, Issued
  <1>10. PurgedOK'
    <2> SUFFICES ASSUME NEW g \in Handler, req'[g].pc \in {"record", "write"}
                 PROVE  /\ refresh' \subseteq missed' \cup {req'[g].spare}
                        /\ \A f \in Handler : req'[f].pc \in Minting => f \in stale'
      BY DEF PurgedOK
    <2>1. g # h /\ req'[g] = req[g]
      BY <1>3, <1>15
    <2>2. /\ refresh \subseteq missed \cup {req[g].spare}
          /\ \A f \in Handler : req[f].pc \in Minting => f \in stale
      BY <2>1 DEF PurgedOK
    <2>3. h \in stale
      BY <1>1, <2>2 DEF Minting
    <2>4. refresh' \subseteq missed' \cup {req'[g].spare}
      BY <1>5, <2>1, <2>2, <2>3
    <2>5. \A f \in Handler : req'[f].pc \in Minting => f # h
      BY <1>15 DEF Minting
    <2> QED
      BY <1>3, <2>2, <2>4, <2>5
  <1>11. RevokedIsPurged'
    BY <1>1, <1>4, <1>5 DEF RevokedIsPurged, CoveredOK
  <1>12. HeldOK'
    <2>1. \A f \in Handler : req'[f].pc \in Minting => f # h
      BY <1>15 DEF Minting
    <2> QED
      BY <1>1, <1>3, <1>5, <2>1 DEF HeldOK
  <1>13. TradeOK'
    <2> SUFFICES ASSUME NEW i \in Jti \ doubled
                 PROVE  /\ \A g, f \in Handler : Trades(g, i)' /\ Trades(f, i)' => g = f
                        /\ \A k \in Issued' : parent'[k] = i =>
                              /\ i \notin refresh'
                              /\ \A g \in Handler : ~Trades(g, i)'
                              /\ \A l \in Issued' : parent'[l] = i => k = l
      BY <1>1 DEF TradeOK
    <2>1. \A g \in Handler : Trades(g, i)' => Trades(g, i) /\ g # h
      BY <1>3 DEF Trades, Idle, Minting
    <2>2. j # i \/ \A k \in Issued : parent[k] # i
      <3>1. ASSUME NEW k \in Issued, parent[k] = i PROVE i \in Issued
        BY <3>1 DEF ParentOK
      <3> QED
        BY <1>4, <3>1
    <2>3. CASE o # i
      <3>1. /\ \A g, f \in Handler : Trades(g, i) /\ Trades(f, i) => g = f
            /\ \A k \in Issued : parent[k] = i =>
                 /\ i \notin refresh
                 /\ \A g \in Handler : ~Trades(g, i)
                 /\ \A l \in Issued : parent[l] = i => k = l
        BY DEF TradeOK
      <3>2. \A k \in Issued' : parent'[k] = i => k \in Issued /\ parent[k] = i
        <4>1. Issued \subseteq Jti
          BY DEF Issued
        <4> QED
          BY <1>2, <1>4, <2>3, <4>1
      <3>3. \A k \in Issued : parent[k] = i => i \notin refresh'
        BY <1>5, <2>2, <3>1
      <3> QED
        BY <2>1, <3>1, <3>2, <3>3
    <2>4. CASE o = i
      <3>1. req[h].pc = "swap" /\ Trades(h, i)
        BY <1>1, <2>4 DEF Trades, Minting
      <3>2. /\ \A k \in Issued : parent[k] # i
            /\ \A g \in Handler : g # h => ~Trades(g, i)
        BY <3>1 DEF TradeOK
      <3> QED
        BY <1>1, <1>2, <1>4, <1>5, <2>1, <2>4, <3>1, <3>2 DEF Issued
    <2> QED
      BY <2>3, <2>4
  <1>14. ParentOK'
    BY <1>1, <1>2, <1>4 DEF ParentOK, Issued
  <1> QED
    BY <1>6, <1>7, <1>8, <1>9, <1>10, <1>11, <1>12, <1>13, <1>14

LEMMA AuthLogout ==
    ASSUME SessionInv, Second \/ (\E j \in Jti : Logout(j))
    PROVE  SessionInv'
  <1> USE SessionBounds DEF SessionInv, Issued
  <1>1. /\ UNCHANGED <<status, iat, parent, record, req, cut, missed, stale, overlap, doubled>>
        /\ UNCHANGED <<revokes, faults>>
        /\ refresh' \subseteq refresh
        /\ now' \in 0..MaxTime /\ now <= now'
    BY DEF Second, Logout, histories, SessionTypeOK
  <1>2. SessionTypeOK'
    BY <1>1 DEF SessionTypeOK
  <1>3. ClockOK'
    BY <1>1 DEF ClockOK, SessionTypeOK
  <1>4. DrawnOK' /\ CoveredOK'
    BY <1>1 DEF DrawnOK, CoveredOK
  <1>5. PurgedOK' /\ RevokedIsPurged' /\ HeldOK'
    BY <1>1 DEF PurgedOK, RevokedIsPurged, HeldOK
  <1>6. TradeOK' /\ ParentOK'
    BY <1>1 DEF TradeOK, Trades, ParentOK
  <1> QED
    BY <1>2, <1>3, <1>4, <1>5, <1>6

(* A revocation or a restore begins. *)
LEMMA AuthBegin ==
    ASSUME SessionInv, NEW h \in Handler, NEW label \in {"purge", "restore"},
           NEW j \in Jti \cup {NoJti}, BeginRevoke(h, label, j),
           status' \in {"active", "suspended"}
    PROVE  SessionInv'
  <1> USE JtiAssumption, SessionBounds DEF SessionInv, Issued, NoJti
  <1>1. /\ UNCHANGED <<now, refresh, iat, parent, record, cut, missed, stale, doubled, faults>>
        /\ req[h] = Idle /\ req' = [req EXCEPT ![h] = [Idle EXCEPT !.pc = label, !.spare = j]]
        /\ revokes' \in 0..MaxTrouble
    BY DEF BeginRevoke, Begin, MoreTrouble, SessionTypeOK
  <1>2. overlap' \in BOOLEAN
    BY Zenon DEF BeginRevoke
  <1>3. overlap' <=> (overlap \/ \E g \in Handler : req[g].pc \in Revoking \cup {"restore"})
    BY Zenon DEF BeginRevoke
  <1>4. [Idle EXCEPT !.pc = label, !.spare = j] \in ReqType
    BY AuthIdleType DEF ReqType, Revoking
  <1>5. /\ req' \in [Handler -> ReqType] /\ \A g \in Handler : g # h => req'[g] = req[g]
        /\ req'[h].pc = label /\ req'[h].new = NoJti /\ req'[h].old = NoJti /\ req'[h].at = -1
    BY <1>1, <1>4 DEF SessionTypeOK, ReqType, Idle
  <1>6. SessionTypeOK'
    BY <1>1, <1>2, <1>5 DEF SessionTypeOK, ReqType
  <1>7. ClockOK' /\ DrawnOK'
    BY <1>1, <1>5 DEF ClockOK, DrawnOK, SessionTypeOK
  <1>8. CoveredOK'
    BY <1>1, <1>3, <1>5 DEF CoveredOK
  <1>9. PurgedOK' /\ RevokedIsPurged'
    BY <1>1, <1>5 DEF PurgedOK, RevokedIsPurged, Minting
  <1>10. HeldOK' /\ TradeOK' /\ ParentOK'
    BY <1>1, <1>5 DEF HeldOK, TradeOK, Trades, ParentOK, Minting
  <1> QED
    BY <1>6, <1>7, <1>8, <1>9, <1>10

(* The rows go, or the delete fails and they are missed. *)
LEMMA AuthPurge ==
    ASSUME SessionInv, NEW h \in Handler, Purge(h)
    PROVE  SessionInv'
  <1> USE JtiAssumption, SessionBounds DEF SessionInv, Issued, NoJti
  <1>1. /\ UNCHANGED <<now, status, iat, parent, record, cut, overlap, doubled, revokes>>
        /\ req[h].pc = "purge" /\ req' = [req EXCEPT ![h].pc = "record"]
        /\ stale' = stale \cup {g \in Handler : req[g].pc \in Minting}
    BY DEF Purge, Goto
  <1>2. /\ refresh' \subseteq refresh /\ refresh' \subseteq missed' \cup {req[h].spare}
        /\ missed \subseteq missed' /\ missed' \subseteq Jti /\ faults' \in 0..MaxFaults
    <2>1. CASE refresh' = refresh \ Purged(h) /\ UNCHANGED <<missed, faults>>
      <3>1. refresh' \subseteq refresh /\ refresh' \subseteq {req[h].spare}
        BY <2>1 DEF Purged
      <3> QED
        BY <2>1, <3>1 DEF SessionTypeOK
    <2>2. CASE Fault /\ missed' = missed \cup refresh /\ UNCHANGED refresh
      <3>1. refresh \subseteq Jti /\ faults' \in 0..MaxFaults
        BY <2>2 DEF Fault, SessionTypeOK
      <3> QED
        BY <2>2, <3>1 DEF SessionTypeOK
    <2> QED
      BY <2>1, <2>2 DEF Purge
  <1>3. /\ req' \in [Handler -> ReqType] /\ \A g \in Handler : g # h => req'[g] = req[g]
        /\ req'[h].pc = "record" /\ req'[h].new = req[h].new /\ req'[h].old = req[h].old
        /\ req'[h].spare = req[h].spare /\ req'[h].at = req[h].at
    BY <1>1 DEF SessionTypeOK, ReqType, Revoking
  <1>4. SessionTypeOK'
    BY <1>1, <1>2, <1>3 DEF SessionTypeOK, ReqType
  <1>5. ClockOK' /\ DrawnOK'
    BY <1>1, <1>3 DEF ClockOK, DrawnOK
  <1>6. CoveredOK'
    BY <1>1, <1>3 DEF CoveredOK, Revoking
  <1>7. PurgedOK' /\ RevokedIsPurged'
    <2>1. \A g \in Handler : req'[g].pc \in Minting => g \in stale'
      BY <1>1, <1>3 DEF Minting
    <2>2. \A g \in Handler : g # h /\ req'[g].pc \in {"record", "write"} =>
             refresh' \subseteq missed' \cup {req'[g].spare}
      BY <1>2, <1>3 DEF PurgedOK
    <2> QED
      BY <1>1, <1>2, <1>3, <2>1, <2>2 DEF PurgedOK, RevokedIsPurged
  <1>8. HeldOK'
    BY <1>1, <1>2, <1>3 DEF HeldOK, Minting
  <1>9. TradeOK' /\ ParentOK'
    BY <1>1, <1>2, <1>3 DEF TradeOK, Trades, ParentOK, Minting
  <1> QED
    BY <1>4, <1>5, <1>6, <1>7, <1>8, <1>9

LEMMA AuthStamp ==
    ASSUME SessionInv, NEW h \in Handler, StampRecord(h)
    PROVE  SessionInv'
  <1> USE JtiAssumption, SessionBounds DEF SessionInv, Issued, NoJti
  <1>1. /\ UNCHANGED <<now, status, refresh, iat, parent, record, cut, missed, stale, overlap>>
        /\ UNCHANGED <<doubled, revokes, faults>>
        /\ req[h].pc = "record" /\ req' = [req EXCEPT ![h].pc = "write", ![h].at = now]
    BY DEF StampRecord, histories
  <1>2. /\ req' \in [Handler -> ReqType] /\ \A g \in Handler : g # h => req'[g] = req[g]
        /\ req'[h].pc = "write" /\ req'[h].new = req[h].new /\ req'[h].old = req[h].old
        /\ req'[h].spare = req[h].spare /\ req'[h].at = now
    <2>1. req[h] \in ReqType /\ now \in -1..MaxTime
      BY DEF SessionTypeOK, ReqType
    <2>2. [req[h] EXCEPT !.pc = "write", !.at = now] \in ReqType
      BY <2>1 DEF ReqType, Revoking
    <2> QED
      BY <1>1, <2>1, <2>2 DEF SessionTypeOK, ReqType
  <1>3. SessionTypeOK'
    BY <1>1, <1>2 DEF SessionTypeOK, ReqType
  <1>4. ClockOK' /\ DrawnOK'
    BY <1>1, <1>2 DEF ClockOK, DrawnOK, SessionTypeOK
  <1>5. CoveredOK'
    BY <1>1, <1>2 DEF CoveredOK, Revoking, ClockOK
  <1>6. PurgedOK' /\ RevokedIsPurged'
    BY <1>1, <1>2 DEF PurgedOK, RevokedIsPurged, Minting
  <1>7. HeldOK' /\ TradeOK' /\ ParentOK'
    BY <1>1, <1>2 DEF HeldOK, TradeOK, Trades, ParentOK, Minting
  <1> QED
    BY <1>3, <1>4, <1>5, <1>6, <1>7

(* The record is written or deleted, or the handler fails or dies. *)
LEMMA AuthFinish ==
    ASSUME SessionInv, NEW h \in Handler, WriteRecord(h) \/ Restore(h) \/ Die(h)
    PROVE  SessionInv'
  <1> USE JtiAssumption, SessionBounds DEF SessionInv, NoJti
  <1>1. /\ UNCHANGED <<now, status, refresh, iat, parent, missed, overlap, doubled, revokes>>
        /\ req[h].pc \in Revoking \cup {"restore"}
        /\ req' = [req EXCEPT ![h] = Idle] /\ stale' = stale \ {h}
        /\ faults' \in 0..MaxFaults
    BY DEF WriteRecord, Restore, Die, Return, Revoking, Fault, SessionTypeOK
  <1>2. /\ req' \in [Handler -> ReqType] /\ \A g \in Handler : g # h => req'[g] = req[g]
        /\ req'[h].pc = "idle" /\ req'[h].new = NoJti /\ req'[h].old = NoJti
        /\ req'[h].at = -1
    BY <1>1, AuthIdleType DEF SessionTypeOK, ReqType, Idle
  <1>3. /\ Issued' = Issued /\ Issued \subseteq Jti
        /\ \A g \in Handler : req'[g].pc \in Minting => (g \in stale <=> g \in stale')
    BY <1>1, <1>2 DEF Issued, Minting
  <1>4. \/ record' = record /\ cut' = cut
        \/ record' = NoRecord /\ cut' = {}
        \/ /\ req[h].pc = "write"
           /\ record' = [at |-> req[h].at, except |-> req[h].spare]
           /\ cut' = (cut \cup {j \in Issued : iat[j] <= req[h].at}) \ {req[h].spare}
    BY DEF WriteRecord, Restore, Die
  <1>5. DrawnOK' /\ TradeOK' /\ ParentOK' /\ PurgedOK'
    <2>1. DrawnOK'
      BY <1>1, <1>2, <1>3 DEF DrawnOK
    <2>2. TradeOK' /\ ParentOK'
      BY <1>1, <1>2, <1>3 DEF TradeOK, Trades, ParentOK, Minting
    <2>3. PurgedOK'
      <3> SUFFICES ASSUME NEW g \in Handler, req'[g].pc \in {"record", "write"}
                   PROVE  /\ refresh' \subseteq missed' \cup {req'[g].spare}
                          /\ \A f \in Handler : req'[f].pc \in Minting => f \in stale'
        BY DEF PurgedOK
      <3>1. g # h /\ req'[g] = req[g]
        BY <1>2
      <3>2. /\ refresh \subseteq missed \cup {req[g].spare}
            /\ \A f \in Handler : req[f].pc \in Minting => f \in stale
        BY <3>1 DEF PurgedOK
      <3>3. \A f \in Handler : req'[f].pc \in Minting => f # h /\ req'[f] = req[f]
        BY <1>2 DEF Minting
      <3> QED
        BY <1>1, <1>3, <3>1, <3>2, <3>3
    <2> QED
      BY <2>1, <2>2, <2>3
  <1>6. ASSUME record' \in [at : -1..MaxTime, except : Jti \cup {NoJti}], cut' \subseteq Issued,
               record'.at <= now
        PROVE  SessionTypeOK' /\ ClockOK'
    <2>1. SessionTypeOK'
      BY <1>1, <1>2, <1>3, <1>6 DEF SessionTypeOK, ReqType
    <2>2. ClockOK'
      BY <1>1, <1>2, <1>6 DEF ClockOK, SessionTypeOK
    <2> QED
      BY <2>1, <2>2
  <1>7. CASE record' = record /\ cut' = cut
    <2>1. SessionTypeOK' /\ ClockOK'
      BY <1>6, <1>7 DEF SessionTypeOK, ClockOK, CoveredOK
    <2>2. CoveredOK'
      BY <1>1, <1>2, <1>3, <1>7 DEF CoveredOK, Revoking
    <2>3. RevokedIsPurged' /\ HeldOK'
      BY <1>1, <1>2, <1>3, <1>7 DEF RevokedIsPurged, HeldOK, Minting
    <2> QED
      BY <1>5, <2>1, <2>2, <2>3
  <1>8. CASE record' = NoRecord /\ cut' = {}
    <2>1. SessionTypeOK' /\ ClockOK'
      BY <1>6, <1>8 DEF SessionTypeOK, NoRecord
    <2>2. CoveredOK'
      <3>1. \A g \in Handler : -1 <= req'[g].at
        BY <1>2 DEF ReqType
      <3> QED
        BY <1>1, <1>2, <1>3, <1>8, <3>1 DEF CoveredOK, Revoking, NoRecord
    <2>3. RevokedIsPurged' /\ HeldOK'
      BY <1>8 DEF RevokedIsPurged, HeldOK
    <2> QED
      BY <1>5, <2>1, <2>2, <2>3
  <1>9. CASE /\ req[h].pc = "write"
             /\ record' = [at |-> req[h].at, except |-> req[h].spare]
             /\ cut' = (cut \cup {j \in Issued : iat[j] <= req[h].at}) \ {req[h].spare}
    <2>1. record'.at = req[h].at /\ record'.except = req[h].spare /\ cut' \subseteq Issued
      BY <1>9 DEF CoveredOK
    <2>2. SessionTypeOK' /\ ClockOK'
      <3>1. req[h].at \in -1..MaxTime /\ req[h].spare \in Jti \cup {NoJti} /\ req[h].at <= now
        BY DEF SessionTypeOK, ClockOK
      <3> QED
        BY <1>6, <1>9, <2>1, <3>1
    <2>3. CoveredOK'
      <3>1. ASSUME ~overlap, NEW j \in cut'
            PROVE  iat[j] <= req[h].at /\ j # req[h].spare
        <4>1. CASE j \in cut
          <5>1. iat[j] <= record.at /\ record.at <= req[h].at /\ j \in Jti
            BY <1>3, <1>9, <3>1, <4>1 DEF CoveredOK
          <5> QED
            BY <1>9, <3>1, <5>1 DEF SessionTypeOK
        <4>2. CASE j \notin cut
          BY <1>9, <3>1, <4>2
        <4> QED
          BY <4>1, <4>2
      <3>2. ASSUME ~overlap, NEW g \in Handler, req'[g].pc = "write"
            PROVE  FALSE
        BY <1>1, <1>2, <1>9, <3>2 DEF CoveredOK, Revoking
      <3>3. ~overlap => \A g, f \in Handler :
               req'[g].pc \in Revoking \cup {"restore"} /\
               req'[f].pc \in Revoking \cup {"restore"} => g = f
        BY <1>2 DEF CoveredOK, Revoking
      <3> QED
        BY <1>1, <1>3, <2>1, <3>1, <3>2, <3>3 DEF CoveredOK
    <2>4. /\ refresh \subseteq missed \cup {req[h].spare}
          /\ \A g \in Handler : req[g].pc \in Minting => g \in stale
      BY <1>9 DEF PurgedOK
    <2>5. RevokedIsPurged'
      BY <1>1, <1>9, <2>4 DEF RevokedIsPurged
    <2>6. HeldOK'
      BY <1>2, <1>3, <2>4 DEF HeldOK, Minting
    <2> QED
      BY <1>5, <2>2, <2>3, <2>5, <2>6
  <1> QED
    BY <1>4, <1>7, <1>8, <1>9

(* The conditions above hold of every state the session handlers reach. *)
THEOREM AuthSessionInv == SessionSpec => []SessionInv
  <1>1. SessionInit => SessionInv
    BY AuthSessionInit
  <1>2. SessionInv /\ [SessionNext]_sessionVars => SessionInv'
    <2> SUFFICES ASSUME SessionInv, [SessionNext]_sessionVars PROVE SessionInv'
      OBVIOUS
    <2>1. CASE Second \/ \E j \in Jti : Logout(j)
      BY <2>1, AuthLogout
    <2>2. ASSUME NEW h \in Handler, ResetPassword(h) \/ Suspend(h) \/ Reactivate(h)
          PROVE  SessionInv'
      <3>1. /\ NoJti \in Jti \cup {NoJti} /\ status' \in {"active", "suspended"}
            /\ BeginRevoke(h, "purge", NoJti) \/ BeginRevoke(h, "restore", NoJti)
        BY <2>2 DEF ResetPassword, Suspend, Reactivate, SessionInv, SessionTypeOK
      <3> QED
        BY <3>1, AuthBegin
    <2>3. ASSUME NEW h \in Handler, NEW j \in Jti, ChangePassword(h, j)
          PROVE  SessionInv'
      <3>1. BeginRevoke(h, "purge", j) /\ status' \in {"active", "suspended"}
        BY <2>3 DEF ChangePassword, SessionInv, SessionTypeOK
      <3> QED
        BY <3>1, AuthBegin
    <2>4. ASSUME NEW h \in Handler,
                 \/ SignedIn(h) \/ DrawFirst(h) \/ DrawNext(h) \/ Store(h) \/ Swap(h)
                 \/ \E j \in Jti : FindRefresh(h, j)
          PROVE  SessionInv'
      BY <2>4, AuthStart, AuthDraw, AuthIssue
    <2>5. ASSUME NEW h \in Handler,
                 Purge(h) \/ StampRecord(h) \/ WriteRecord(h) \/ Restore(h) \/ Die(h)
          PROVE  SessionInv'
      BY <2>5, AuthPurge, AuthStamp, AuthFinish
    <2>6. CASE UNCHANGED sessionVars
      BY <2>6 DEF sessionVars, SessionInv, SessionTypeOK, ClockOK, DrawnOK, CoveredOK,
         PurgedOK,
                  RevokedIsPurged, HeldOK, TradeOK, Trades, ParentOK, Issued
    <2> QED
      BY <2>1, <2>2, <2>3, <2>4, <2>5, <2>6 DEF SessionNext
  <1> QED
    BY <1>1, <1>2, PTL DEF SessionSpec

(* Whatever overlaps, fails or dies: a session that a revocation ended is  *)
(* refused and has no row that a purge saw, and a refresh token is traded  *)
(* once (sessions.rs, tokens.rs).                                          *)
THEOREM AuthSessionSafety == SessionSpec => []SessionSafety
  <1>1. SessionInv => SessionSafety
    <2> SUFFICES ASSUME SessionInv PROVE SessionSafety
      OBVIOUS
    <2>1. RevokedStaysRefused
      <3> SUFFICES ASSUME ~overlap, NEW j \in cut PROVE ~Accepts(j)
        BY DEF RevokedStaysRefused
      <3>1. /\ j \in Issued /\ iat[j] >= 0 /\ j \in Jti
            /\ iat[j] <= record.at /\ j # record.except
        BY DEF SessionInv, CoveredOK, Issued
      <3>2. record # NoRecord
        BY <3>1 DEF NoRecord, SessionInv, SessionTypeOK
      <3> QED
        BY <3>1, <3>2 DEF Accepts, Covers
    <2>2. TradedOnce
      <3> SUFFICES ASSUME NEW j \in Jti \ doubled
                   PROVE  Cardinality({k \in Issued : parent[k] = j}) <= 1
        BY DEF TradedOnce
      <3>1. \A k, l \in {k \in Issued : parent[k] = j} : k = l
        BY DEF SessionInv, TradeOK
      <3> QED
        BY <3>1, AuthAtMostOne
    <2> QED
      BY <2>1, <2>2 DEF SessionSafety, SessionInv
  <1> QED
    BY <1>1, AuthSessionInv, PTL

(* No step trades a session that a revocation has ended, unless the trade  *)
(* overlapped it or its delete missed the row (refresh_access_token).      *)
THEOREM AuthRevokedIsNotTraded == SessionSpec => RevokedIsNotTraded
  <1>1. SessionInv /\ [SessionNext]_sessionVars =>
            [\A k \in refresh' \ (refresh \cup missed') : parent'[k] \notin cut]_sessionVars
    <2> SUFFICES ASSUME SessionInv, SessionNext, NEW k \in refresh' \ (refresh \cup missed')
                 PROVE  parent'[k] \notin cut
      OBVIOUS
    <2>1. PICK h \in Handler : Store(h) \/ Swap(h)
      <3>1. ASSUME NEW h \in Handler, NEW label, NEW j, BeginRevoke(h, label, j)
            PROVE  refresh' = refresh
        BY <3>1 DEF BeginRevoke
      <3> QED
        BY <3>1 DEF SessionNext, Second, Logout, SignedIn, DrawFirst, DrawNext,
           ResetPassword,
                 Suspend, Purge, StampRecord, WriteRecord, Reactivate, Restore, Die,
                 FindRefresh, ChangePassword
    <2>2. /\ req[h].pc \in {"swap", "store"} /\ k = req[h].new
          /\ parent' = [parent EXCEPT ![req[h].new] = req[h].old]
          /\ h \notin stale /\ req[h].old \notin missed
      BY <2>1 DEF Store, Swap, Issue
    <2>3. k \in Jti /\ parent \in [Jti -> Jti \cup {NoJti}]
      BY <2>2 DEF SessionInv, DrawnOK, SessionTypeOK
    <2> QED
      BY <2>2, <2>3 DEF SessionInv, HeldOK, Minting
  <1> QED
    BY <1>1, AuthSessionInv, PTL DEF SessionSpec, RevokedIsNotTraded

-----------------------------------------------------------------------------
(* Sign-in: the inductive invariant. *)

SignInSpec == SignInInit /\ [][SignInNext]_signInVars

(* The row holds the newest code; a code that signed in is no longer live, *)
(* and the row counts the guesses at its own code only.                    *)
CodeOK ==
    /\ code.id = drawn["code"]
    /\ code.live => code.id \in Id
    /\ code.id \in Id => tries[code.id] = code.attempts
    /\ \A c \in Id :
        /\ uses[<<"code", c>>] <= 1
        /\ uses[<<"code", c>>] > 0 => c <= drawn["code"] /\ (c = code.id => ~code.live)
        /\ c > drawn["code"] => tries[c] = 0
        /\ tries[c] <= MaxTries

(* A recovery code that was used is not among the unused ones again. *)
RecoveryOK ==
    /\ \A c \in recovery : c <= drawn["recovery"]
    /\ \A c \in Id :
        /\ uses[<<"recovery", c>>] <= 1
        /\ uses[<<"recovery", c>>] > 0 => c <= drawn["recovery"] /\ c \notin recovery

LinkOK ==
    /\ \A l \in links : l <= drawn["link"]
    /\ \A l \in Id :
        /\ uses[<<"link", l>>] <= 1
        /\ uses[<<"link", l>>] > 0 => l <= drawn["link"] /\ l \notin links

(* Unless an enrolment was swapped under a request, whoever has compared   *)
(* digits has done so with the secret that is enrolled.                    *)
TaskOK ==
    \A r \in Request :
        /\ task[r].secret <= drawn["secret"]
        /\ task[r].pc \in {"claim", "confirm"} => task[r].at >= 0 /\ task[r].secret \in Id
        /\ task[r].pc = "confirm" => task[r].secret \in proven
        /\ ~swapped /\ task[r].pc \in Held => task[r].secret = totp.secret

(* The last used step covers every step whose digits of the enrolled       *)
(* secret were accepted.                                                   *)
DigitsOK ==
    /\ totp = NoTotp \/ (totp.secret \in Id /\ totp.secret <= drawn["secret"])
    /\ \A s \in Id, t \in 0..MaxStep : uses[<<"digits", <<s, t>>>>] > 0 => s <= drawn["secret"]
    /\ ~swapped => \A s \in Id \ rewound, t \in 0..MaxStep :
        /\ uses[<<"digits", <<s, t>>>>] <= 1
        /\ uses[<<"digits", <<s, t>>>>] > 0 /\ s = totp.secret => t <= totp.last

SignInInv ==
    /\ SignInTypeOK /\ CodeOK /\ RecoveryOK /\ LinkOK /\ TaskOK /\ DigitsOK /\ ActiveIsProven

TaskType == [pc : {"none", "factor", "spend", "recover", "codes"} \cup Held,
             code : Id \cup {None}, secret : Id \cup {None},
             at : -1..MaxStep, spare : Id \cup {None}]

LEMMA AuthNoTaskType == NoTask \in TaskType
  BY SignInAssumption DEF NoTask, TaskType, None, Id

(* The four kinds of credential are counted apart. *)
LEMMA AuthCredential ==
    /\ \A c \in Id : /\ <<"code", c>> \in Credential /\ <<"recovery", c>> \in Credential
                     /\ <<"link", c>> \in Credential
    /\ \A s \in Id, t \in 0..MaxStep : <<"digits", <<s, t>>>> \in Credential
  BY DEF Credential, Digits

LEMMA AuthUses ==
    ASSUME uses \in [Credential -> Nat], NEW c \in Credential, Uses(c)
    PROVE  /\ uses' \in [Credential -> Nat] /\ uses'[c] = uses[c] + 1
           /\ \A d \in Credential : d # c => uses'[d] = uses[d]
  BY DEF Uses

LEMMA AuthDraws ==
    ASSUME SignInTypeOK, NEW k \in Kinds, Draws(k)
    PROVE  /\ drawn' \in [Kinds -> 0..2] /\ drawn'[k] = drawn[k] + 1 /\ budget' = budget
           /\ \A i \in Kinds : i # k => drawn'[i] = drawn[i]
           /\ Drawing(k) \in Id
  <1>1. drawn[k] \in 0..2 /\ budget[k] \in 0..2 /\ drawn[k] < budget[k]
    BY SignInAssumption DEF SignInTypeOK, Draws
  <1>2. drawn[k] + 1 \in 1..2
    BY <1>1
  <1> QED
    BY <1>1, <1>2 DEF SignInTypeOK, Draws, Drawing, Id

(* Who does not touch a credential's rows and counts leaves it as it was. *)
LEMMA AuthCodeKept ==
    ASSUME CodeOK, UNCHANGED <<code, tries>>, drawn'["code"] = drawn["code"],
           \A c \in Id : uses'[<<"code", c>>] = uses[<<"code", c>>]
    PROVE  CodeOK'
  BY DEF CodeOK

LEMMA AuthRecoveryKept ==
    ASSUME RecoveryOK, recovery' \subseteq recovery, drawn'["recovery"] = drawn["recovery"],
           \A c \in Id : uses'[<<"recovery", c>>] = uses[<<"recovery", c>>]
    PROVE  RecoveryOK'
  BY DEF RecoveryOK

LEMMA AuthLinkKept ==
    ASSUME LinkOK, links' \subseteq links, drawn'["link"] = drawn["link"],
           \A c \in Id : uses'[<<"link", c>>] = uses[<<"link", c>>]
    PROVE  LinkOK'
  BY DEF LinkOK

LEMMA AuthDigitsKept ==
    ASSUME DigitsOK, ActiveIsProven, UNCHANGED <<totp, rewound, swapped>>,
           drawn'["secret"] = drawn["secret"], proven \subseteq proven',
           \A s \in Id, t \in 0..MaxStep :
               uses'[<<"digits", <<s, t>>>>] = uses[<<"digits", <<s, t>>>>]
    PROVE  DigitsOK' /\ ActiveIsProven'
  <1>1. DigitsOK'
    BY DEF DigitsOK
  <1>2. ActiveIsProven'
    BY DEF ActiveIsProven
  <1> QED
    BY <1>1, <1>2

LEMMA AuthTaskKept ==
    ASSUME SignInTypeOK, TaskOK, UNCHANGED <<totp, swapped>>, drawn'["secret"] = drawn["secret"],
           proven \subseteq proven', NEW r \in Request,
           \A q \in Request : q # r => task'[q] = task[q],
           task'[r].pc \notin Held, task'[r].secret \in {None, task[r].secret}
    PROVE  TaskOK'
  <1>1. 0 <= drawn["secret"]
    BY DEF SignInTypeOK, Kinds
  <1> QED
    BY <1>1 DEF TaskOK, Held, None

LEMMA AuthSignInInit == SignInInit => SignInInv
  <1> SUFFICES ASSUME SignInInit PROVE SignInInv
    OBVIOUS
  <1> USE SignInAssumption DEF SignInInit
  <1>1. /\ drawn \in [Kinds -> 0..2] /\ \A k \in Kinds : drawn[k] = 0
        /\ uses \in [Credential -> Nat] /\ \A c \in Credential : uses[c] = 0
        /\ tries \in [Id -> Nat] /\ \A c \in Id : tries[c] = 0
    OBVIOUS
  <1>2. task \in [Request -> TaskType] /\ \A r \in Request : task[r] = NoTask
    BY AuthNoTaskType
  <1>3. /\ code \in [id : Id \cup {None}, attempts : 0..MaxTries, live : BOOLEAN]
        /\ totp \in [secret : Id \cup {None}, active : BOOLEAN, last : -1..MaxStep]
    BY DEF NoCode, NoTotp, None, Id
  <1>4. swapped \in BOOLEAN
    BY Zenon
  <1>5. SignInTypeOK
    BY <1>1, <1>2, <1>3, <1>4 DEF SignInTypeOK, TaskType
  <1>6. CodeOK
    BY <1>1, AuthCredential DEF CodeOK, NoCode, None, Kinds, Id
  <1>7. RecoveryOK /\ LinkOK
    <2>1. \A c \in Id : uses[<<"recovery", c>>] = 0 /\ uses[<<"link", c>>] = 0
      BY <1>1, AuthCredential
    <2>2. recovery = {} /\ links = {}
      OBVIOUS
    <2> HIDE DEF SignInInit
    <2>3. RecoveryOK
      BY <2>1, <2>2 DEF RecoveryOK, Id
    <2>4. LinkOK
      BY <2>1, <2>2 DEF LinkOK, Id
    <2> QED
      BY <2>3, <2>4
  <1>8. TaskOK
    BY <1>1, <1>2 DEF TaskOK, NoTask, None, Held, Kinds
  <1>9. DigitsOK
    BY <1>1, AuthCredential DEF DigitsOK
  <1>10. ActiveIsProven
    BY DEF ActiveIsProven, NoTotp
  <1> QED
    BY <1>5, <1>6, <1>7, <1>8, <1>9, <1>10 DEF SignInInv

(* Steps that change nothing but how far one request has come. *)
LEMMA AuthTaskStep ==
    ASSUME SignInInv, NEW r \in Request,
           \/ Password(r) \/ NoFactor(r) \/ ShowWrong(r)
           \/ \E c \in Id : ShowRecovery(r, c)
    PROVE  SignInInv'
  <1> USE DEF SignInInv
  <1>1. UNCHANGED <<step, rows, accounts>>
    BY DEF Password, NoFactor, ShowWrong, ShowRecovery
  <1>2. /\ UNCHANGED <<step, code, totp, recovery, links, budget, drawn>>
        /\ UNCHANGED <<uses, tries, proven, rewound, swapped>>
    BY <1>1 DEF rows, accounts
  <1>3. task[r] \in TaskType
    BY DEF SignInTypeOK, TaskType
  <1>4. \E t \in TaskType : /\ task' = [task EXCEPT ![r] = t]
                            /\ t.pc \notin Held /\ t.secret \in {None, task[r].secret}
    <2>1. [NoTask EXCEPT !.pc = "factor"] \in TaskType
      BY AuthNoTaskType DEF TaskType
    <2>2. [task[r] EXCEPT !.pc = "spend"] \in TaskType
      BY <1>3 DEF TaskType
    <2>3. \A c \in Id : [task[r] EXCEPT !.pc = "recover", !.spare = c] \in TaskType
      BY <1>3 DEF TaskType
    <2>4. CASE Password(r)
      BY <2>1, <2>4 DEF Password, Starts, NoTask, Held
    <2>5. CASE NoFactor(r) \/ ShowWrong(r)
      BY <1>3, <2>2, <2>5, AuthNoTaskType
         DEF NoFactor, ShowWrong, Passes, Goes, Ends, NoTask,
                                              Held, TaskType
    <2>6. ASSUME NEW c \in Id, ShowRecovery(r, c)
          PROVE  \E t \in TaskType : /\ task' = [task EXCEPT ![r] = t] /\ t.pc \notin Held
                                     /\ t.secret \in {None, task[r].secret}
      <3> DEFINE t == [task[r] EXCEPT !.pc = "recover", !.spare = c]
      <3>1. t \in TaskType /\ task' = [task EXCEPT ![r] = t]
        BY <2>3, <2>6 DEF ShowRecovery
      <3>2. t.pc \notin Held /\ t.secret = task[r].secret
        BY <1>3 DEF Held, TaskType
      <3> HIDE DEF t
      <3> QED
        BY <3>1, <3>2
    <2> QED
      BY <2>4, <2>5, <2>6
  <1>5. /\ task' \in [Request -> TaskType] /\ \A q \in Request : q # r => task'[q] = task[q]
        /\ task'[r].pc \notin Held /\ task'[r].secret \in {None, task[r].secret}
    BY <1>4 DEF SignInTypeOK, TaskType
  <1>6. SignInTypeOK'
    BY <1>2, <1>5 DEF SignInTypeOK, TaskType
  <1>7. CodeOK' /\ RecoveryOK' /\ LinkOK' /\ DigitsOK' /\ ActiveIsProven'
    BY <1>2, AuthCodeKept, AuthRecoveryKept, AuthLinkKept, AuthDigitsKept
  <1>8. TaskOK'
    BY <1>2, <1>5, AuthTaskKept
  <1> QED
    BY <1>6, <1>7, <1>8

(* Digits are compared with the enrolment that is there. *)
LEMMA AuthShow ==
    ASSUME SignInInv, NEW r \in Request, NEW at \in 0..MaxStep,
           ShowDigits(r, at) \/ ShowForConfirm(r, at) \/ ShowForDisable(r, at)
    PROVE  SignInInv'
  <1> USE DEF SignInInv
  <1>1. /\ UNCHANGED <<step, code, totp, recovery, links, budget, drawn>>
        /\ UNCHANGED <<uses, tries, rewound, swapped>>
    BY DEF ShowDigits, ShowForConfirm, ShowForDisable, rows, accounts
  <1>2. totp.secret \in Id /\ totp.secret <= drawn["secret"]
    <2>1. ~NoTotp.active
      BY DEF NoTotp
    <2>2. totp # NoTotp
      BY <2>1 DEF ShowDigits, ShowForConfirm, ShowForDisable
    <2> QED
      BY <2>2 DEF DigitsOK
  <1>3. \E t \in TaskType : /\ task' = [task EXCEPT ![r] = t]
                            /\ t.pc \in Held /\ t.secret = totp.secret
                            /\ t.pc # "disable" => t.at = at
                            /\ t.pc = "confirm" => totp.secret \in proven'
    <2>1. task[r] \in TaskType /\ at \in -1..MaxStep
      BY SignInAssumption DEF SignInTypeOK, TaskType
    <2>2. [task[r] EXCEPT !.pc = "claim", !.secret = totp.secret, !.at = at] \in TaskType
      BY <1>2, <2>1 DEF TaskType, Held
    <2>3. /\ [NoTask EXCEPT !.pc = "confirm", !.secret = totp.secret, !.at = at] \in TaskType
          /\ [NoTask EXCEPT !.pc = "disable", !.secret = totp.secret] \in TaskType
      BY <1>2, <2>1, AuthNoTaskType DEF TaskType, Held
    <2>4. CASE ShowDigits(r, at)
      <3> DEFINE t == [task[r] EXCEPT !.pc = "claim", !.secret = totp.secret, !.at = at]
      <3>1. t \in TaskType /\ task' = [task EXCEPT ![r] = t]
        BY <2>2, <2>4 DEF ShowDigits
      <3>2. t.pc = "claim" /\ t.pc \in Held /\ t.secret = totp.secret /\ t.at = at
        BY <2>1 DEF Held, TaskType
      <3> HIDE DEF t
      <3> QED
        BY <3>1, <3>2
    <2>5. CASE ShowForConfirm(r, at)
      BY <2>3, <2>5 DEF ShowForConfirm, Starts, Held, NoTask
    <2>6. CASE ShowForDisable(r, at)
      BY <2>3, <2>6 DEF ShowForDisable, Starts, Held, NoTask
    <2> QED
      BY <2>4, <2>5, <2>6
  <1>4. /\ task' \in [Request -> TaskType] /\ \A q \in Request : q # r => task'[q] = task[q]
        /\ task'[r].pc \in Held /\ task'[r].secret = totp.secret
        /\ task'[r].pc # "disable" => task'[r].at = at
        /\ task'[r].pc = "confirm" => totp.secret \in proven'
    BY <1>3 DEF SignInTypeOK, TaskType
  <1>5. proven \subseteq proven' /\ proven' \subseteq Id
    BY <1>2 DEF ShowDigits, ShowForConfirm, ShowForDisable, accounts, SignInTypeOK
  <1>6. SignInTypeOK'
    BY <1>1, <1>4, <1>5 DEF SignInTypeOK, TaskType
  <1>7. CodeOK' /\ RecoveryOK' /\ LinkOK' /\ DigitsOK' /\ ActiveIsProven'
    BY <1>1, <1>5, AuthCodeKept, AuthRecoveryKept, AuthLinkKept, AuthDigitsKept
  <1>8. TaskOK'
    BY <1>1, <1>2, <1>4, <1>5 DEF TaskOK, Held
  <1> QED
    BY <1>6, <1>7, <1>8

(* A code is drawn, expires, is guessed at or is spent. *)
LEMMA AuthRequestCode ==
    ASSUME SignInInv, RequestCode
    PROVE  SignInInv'
  <1> USE DEF SignInInv
  <1>1. /\ UNCHANGED <<step, totp, recovery, links, task, uses, tries, proven, rewound, swapped>>
        /\ Draws("code") /\ code' = [id |-> Drawing("code"), attempts |-> 0, live |-> TRUE]
    BY DEF RequestCode, accounts
  <1>2. /\ drawn' \in [Kinds -> 0..2] /\ drawn'["code"] = drawn["code"] + 1 /\ budget' = budget
        /\ drawn'["recovery"] = drawn["recovery"] /\ drawn'["link"] = drawn["link"]
        /\ drawn'["secret"] = drawn["secret"] /\ Drawing("code") \in Id
    BY <1>1, AuthDraws DEF Kinds
  <1>3. code' \in [id : Id \cup {None}, attempts : 0..MaxTries, live : BOOLEAN]
    BY <1>1, <1>2, SignInAssumption
  <1>4. /\ code'.id = drawn["code"] + 1 /\ code'.attempts = 0 /\ code'.id \in Id
        /\ drawn["code"] \in 0..2
    BY <1>1, <1>2 DEF Drawing, SignInTypeOK, Kinds
  <1>5. SignInTypeOK'
    BY <1>1, <1>2, <1>3 DEF SignInTypeOK
  <1>6. CodeOK'
    BY <1>1, <1>2, <1>4 DEF CodeOK, Id
  <1>7. RecoveryOK' /\ LinkOK' /\ DigitsOK' /\ ActiveIsProven'
    BY <1>1, <1>2, AuthRecoveryKept, AuthLinkKept, AuthDigitsKept
  <1>8. TaskOK'
    BY <1>1, <1>2 DEF TaskOK
  <1> QED
    BY <1>5, <1>6, <1>7, <1>8

LEMMA AuthExpireCode ==
    ASSUME SignInInv, ExpireCode
    PROVE  SignInInv'
  <1> USE DEF SignInInv
  <1>1. /\ UNCHANGED <<step, totp, recovery, links, budget, drawn, task>>
        /\ UNCHANGED <<uses, tries, proven, rewound, swapped>>
        /\ code' = [code EXCEPT !.live = FALSE]
    BY DEF ExpireCode, accounts
  <1>2. /\ code' \in [id : Id \cup {None}, attempts : 0..MaxTries, live : BOOLEAN]
        /\ code'.id = code.id /\ code'.attempts = code.attempts /\ ~code'.live
    BY <1>1 DEF SignInTypeOK
  <1>3. SignInTypeOK'
    BY <1>1, <1>2 DEF SignInTypeOK
  <1>4. CodeOK'
    BY <1>1, <1>2 DEF CodeOK
  <1>5. RecoveryOK' /\ LinkOK' /\ DigitsOK' /\ ActiveIsProven' /\ TaskOK'
    BY <1>1, AuthRecoveryKept, AuthLinkKept, AuthDigitsKept DEF TaskOK
  <1> QED
    BY <1>3, <1>4, <1>5

LEMMA AuthCheckCode ==
    ASSUME SignInInv, NEW r \in Request, NEW guess \in Id \cup {None}, CheckCode(r, guess)
    PROVE  SignInInv'
  <1> USE DEF SignInInv
  <1>1. /\ UNCHANGED <<step, totp, recovery, links, budget, drawn, uses, proven, rewound>>
        /\ UNCHANGED swapped
        /\ code.live /\ code.attempts < MaxTries
        /\ code' = [code EXCEPT !.attempts = @ + 1]
        /\ tries' = [tries EXCEPT ![code.id] = @ + 1]
    BY DEF CheckCode, MayTry
  <1>2. code.id \in Id /\ code.attempts \in 0..MaxTries /\ tries[code.id] = code.attempts
    BY <1>1 DEF CodeOK, SignInTypeOK
  <1>3. /\ code' \in [id : Id \cup {None}, attempts : 0..MaxTries, live : BOOLEAN]
        /\ code'.id = code.id /\ code'.attempts = code.attempts + 1 /\ (code'.live <=> code.live)
    BY <1>1, <1>2, SignInAssumption DEF SignInTypeOK
  <1>4. /\ tries' \in [Id -> Nat] /\ tries'[code.id] = code.attempts + 1
        /\ \A c \in Id : c # code.id => tries'[c] = tries[c]
    BY <1>1, <1>2 DEF SignInTypeOK
  <1>5. /\ task' \in [Request -> TaskType] /\ \A q \in Request : q # r => task'[q] = task[q]
        /\ task'[r].pc \notin Held /\ task'[r].secret = None
    <2>1. [NoTask EXCEPT !.pc = "factor", !.code = guess] \in TaskType
      BY AuthNoTaskType DEF TaskType
    <2>2. CASE Starts(r, [NoTask EXCEPT !.pc = "factor", !.code = guess])
      BY <2>1, <2>2 DEF Starts, SignInTypeOK, TaskType, NoTask, Held
    <2>3. CASE task[r] = NoTask /\ UNCHANGED task
      BY <2>3 DEF SignInTypeOK, TaskType, NoTask, Held
    <2> QED
      BY <2>2, <2>3 DEF CheckCode
  <1>6. SignInTypeOK'
    BY <1>1, <1>3, <1>4, <1>5 DEF SignInTypeOK, TaskType
  <1>7. CodeOK'
    BY <1>1, <1>2, <1>3, <1>4, SignInAssumption DEF CodeOK, Id
  <1>8. RecoveryOK' /\ LinkOK' /\ DigitsOK' /\ ActiveIsProven'
    BY <1>1, AuthRecoveryKept, AuthLinkKept, AuthDigitsKept
  <1>9. TaskOK'
    BY <1>1, <1>5, AuthTaskKept
  <1> QED
    BY <1>6, <1>7, <1>8, <1>9

(* The request is over. *)
LEMMA AuthEnds ==
    ASSUME SignInTypeOK, NEW r \in Request, Ends(r) \/ Passes(r)
    PROVE  /\ task' \in [Request -> TaskType] /\ \A q \in Request : q # r => task'[q] = task[q]
           /\ task'[r].pc \notin Held /\ task'[r].secret \in {None, task[r].secret}
  <1>1. task[r] \in TaskType
    BY DEF SignInTypeOK, TaskType
  <1>2. [task[r] EXCEPT !.pc = "spend"] \in TaskType
    BY <1>1 DEF TaskType
  <1>3. CASE Ends(r)
    BY <1>3, AuthNoTaskType DEF Ends, SignInTypeOK, TaskType, NoTask, Held
  <1>4. CASE Goes(r, "spend")
    BY <1>1, <1>2, <1>4 DEF Goes, SignInTypeOK, TaskType, Held
  <1> QED
    BY <1>3, <1>4 DEF Passes

LEMMA AuthSpendCode ==
    ASSUME SignInInv, NEW r \in Request, SpendCode(r)
    PROVE  SignInInv'
  <1> USE DEF SignInInv
  <1>1. /\ UNCHANGED <<step, totp, recovery, links, budget, drawn, tries, proven, rewound>>
        /\ UNCHANGED swapped /\ Ends(r)
    BY DEF SpendCode
  <1>2. /\ task' \in [Request -> TaskType] /\ \A q \in Request : q # r => task'[q] = task[q]
        /\ task'[r].pc \notin Held /\ task'[r].secret \in {None, task[r].secret}
    BY <1>1, AuthEnds
  <1>3. TaskOK'
    BY <1>1, <1>2, AuthTaskKept
  <1>4. CASE UNCHANGED <<code, uses>>
    <2>1. SignInTypeOK'
      BY <1>1, <1>2, <1>4 DEF SignInTypeOK, TaskType
    <2> QED
      BY <1>1, <1>3, <1>4, <2>1, AuthCodeKept, AuthRecoveryKept, AuthLinkKept,
         AuthDigitsKept
  <1>5. CASE Spends(r) /\ code' = [code EXCEPT !.live = FALSE] /\ Uses(<<"code", task[r].code>>)
    <2>1. code.live /\ code.id \in Id /\ task[r].code = code.id
      BY <1>5 DEF Spends, CodeOK
    <2>2. /\ code' \in [id : Id \cup {None}, attempts : 0..MaxTries, live : BOOLEAN]
          /\ code'.id = code.id /\ code'.attempts = code.attempts /\ ~code'.live
      BY <1>5 DEF SignInTypeOK
    <2>3. /\ uses' \in [Credential -> Nat]
          /\ uses'[<<"code", code.id>>] = uses[<<"code", code.id>>] + 1
          /\ \A d \in Credential : d # <<"code", code.id>> => uses'[d] = uses[d]
      BY <1>5, <2>1, AuthCredential, AuthUses, ZenonT(40) DEF SignInTypeOK
    <2>4. /\ \A c \in Id : c # code.id => uses'[<<"code", c>>] = uses[<<"code", c>>]
          /\ \A c \in Id : uses'[<<"recovery", c>>] = uses[<<"recovery", c>>]
          /\ \A c \in Id : uses'[<<"link", c>>] = uses[<<"link", c>>]
          /\ \A s \in Id, t \in 0..MaxStep :
               uses'[<<"digits", <<s, t>>>>] = uses[<<"digits", <<s, t>>>>]
      BY <2>3, AuthCredential
    <2>5. uses[<<"code", code.id>>] = 0 /\ code.id <= drawn["code"]
      <3>1. uses[<<"code", code.id>>] \in Nat
        BY <2>1, AuthCredential DEF SignInTypeOK
      <3>2. ~(uses[<<"code", code.id>>] > 0)
        BY <2>1 DEF CodeOK
      <3>3. code.id = drawn["code"] /\ drawn["code"] \in 0..2
        BY DEF CodeOK, SignInTypeOK, Kinds
      <3> QED
        BY <3>1, <3>2, <3>3
    <2>6. SignInTypeOK'
      BY <1>1, <1>2, <2>2, <2>3 DEF SignInTypeOK, TaskType
    <2>7. CodeOK'
      BY <1>1, <2>1, <2>2, <2>3, <2>4, <2>5 DEF CodeOK
    <2> QED
      BY <1>1, <1>3, <2>4, <2>6, <2>7, AuthRecoveryKept, AuthLinkKept, AuthDigitsKept
  <1> QED
    BY <1>4, <1>5 DEF SpendCode

(* The digits are accepted if the row's last step is earlier. *)
LEMMA AuthClaimStep ==
    ASSUME SignInInv, NEW r \in Request, ClaimStep(r)
    PROVE  SignInInv'
  <1> DEFINE z == task[r].secret
             at == task[r].at
  <1> USE DEF SignInInv
  <1>1. /\ UNCHANGED <<step, code, recovery, links, budget, drawn, tries, proven, rewound>>
        /\ UNCHANGED swapped /\ task[r].pc = "claim"
        /\ Ends(r) \/ Passes(r)
    BY DEF ClaimStep
  <1>2. /\ task' \in [Request -> TaskType] /\ \A q \in Request : q # r => task'[q] = task[q]
        /\ task'[r].pc \notin Held /\ task'[r].secret \in {None, task[r].secret}
    BY <1>1, AuthEnds
  <1>3. /\ z \in Id /\ at \in 0..MaxStep /\ z <= drawn["secret"]
        /\ ~swapped => z = totp.secret
    BY <1>1 DEF TaskOK, Held, SignInTypeOK
  <1>4. CASE UNCHANGED <<totp, uses>>
    <2>1. SignInTypeOK'
      BY <1>1, <1>2, <1>4 DEF SignInTypeOK, TaskType
    <2>2. TaskOK'
      BY <1>1, <1>2, <1>4, AuthTaskKept
    <2> QED
      BY <1>1, <1>4, <2>1, <2>2, AuthCodeKept, AuthRecoveryKept, AuthLinkKept,
         AuthDigitsKept
  <1>5. CASE Newer(at) /\ totp' = [totp EXCEPT !.last = at] /\ Uses(<<"digits", <<z, at>>>>)
    <2>1. /\ totp' \in [secret : Id \cup {None}, active : BOOLEAN, last : -1..MaxStep]
          /\ totp'.secret = totp.secret /\ totp'.last = at /\ (totp'.active <=> totp.active)
          /\ totp.last < at /\ totp # NoTotp
      <3>1. at \in -1..MaxStep
        BY <1>3
      <3> QED
        BY <1>5, <3>1 DEF SignInTypeOK, Newer
    <2>2. /\ uses' \in [Credential -> Nat]
          /\ uses'[<<"digits", <<z, at>>>>] = uses[<<"digits", <<z, at>>>>] + 1
          /\ \A d \in Credential : d # <<"digits", <<z, at>>>> => uses'[d] = uses[d]
      BY <1>3, <1>5, AuthCredential, AuthUses DEF SignInTypeOK
    <2>3. /\ \A c \in Id : uses'[<<"code", c>>] = uses[<<"code", c>>]
          /\ \A c \in Id : uses'[<<"recovery", c>>] = uses[<<"recovery", c>>]
          /\ \A c \in Id : uses'[<<"link", c>>] = uses[<<"link", c>>]
          /\ \A s \in Id, t \in 0..MaxStep : s # z \/ t # at =>
               uses'[<<"digits", <<s, t>>>>] = uses[<<"digits", <<s, t>>>>]
      BY <2>2, AuthCredential
    <2>4. SignInTypeOK'
      BY <1>1, <1>2, <2>1, <2>2 DEF SignInTypeOK, TaskType
    <2>5. TaskOK'
      <3>1. 0 <= drawn["secret"]
        BY DEF SignInTypeOK, Kinds
      <3> QED
        BY <1>1, <1>2, <2>1, <3>1 DEF TaskOK, Held, None
    <2>6. DigitsOK'
      <3> HIDE DEF z, at
      <3>1. totp.secret \in Id /\ totp.secret <= drawn["secret"]
        BY <2>1 DEF DigitsOK
      <3>2. \A s \in Id, t \in 0..MaxStep : uses'[<<"digits", <<s, t>>>>] > 0 =>
               s <= drawn["secret"]
        BY <1>3, <2>3 DEF DigitsOK
      <3>3. ASSUME ~swapped, NEW s \in Id \ rewound, NEW t \in 0..MaxStep
            PROVE  /\ uses'[<<"digits", <<s, t>>>>] <= 1
                   /\ uses'[<<"digits", <<s, t>>>>] > 0 /\ s = totp.secret => t <= at
        <4>1. /\ uses[<<"digits", <<s, t>>>>] <= 1
              /\ uses[<<"digits", <<s, t>>>>] > 0 /\ s = totp.secret => t <= totp.last
              /\ uses[<<"digits", <<s, t>>>>] \in Nat
          BY <3>3, AuthCredential DEF DigitsOK, SignInTypeOK
        <4>2. totp.last \in Int
          BY DEF SignInTypeOK
        <4>3. CASE s = z /\ t = at
          <5>1. ~(uses[<<"digits", <<s, t>>>>] > 0)
            BY <1>3, <2>1, <3>3, <4>1, <4>2, <4>3
          <5> QED
            BY <1>3, <2>2, <4>1, <4>3, <5>1
        <4>4. CASE s # z \/ t # at
          BY <1>3, <2>1, <2>3, <4>1, <4>2, <4>4
        <4> QED
          BY <4>3, <4>4
      <3> QED
        BY <1>1, <2>1, <3>1, <3>2, <3>3 DEF DigitsOK
    <2>7. ActiveIsProven'
      BY <1>1, <2>1 DEF ActiveIsProven
    <2> QED
      BY <1>1, <2>3, <2>4, <2>5, <2>6, <2>7, AuthCodeKept, AuthRecoveryKept, AuthLinkKept
  <1> QED
    BY <1>4, <1>5 DEF ClaimStep

(* A new secret has signed nobody in. *)
LEMMA AuthEnrol ==
    ASSUME SignInInv, Enrol
    PROVE  SignInInv'
  <1> USE DEF SignInInv
  <1>1. /\ UNCHANGED <<step, code, recovery, links, task, uses, tries, proven, rewound>>
        /\ Draws("secret") /\ totp' = Enrolled(Drawing("secret"))
    BY DEF Enrol
  <1>2. /\ drawn' \in [Kinds -> 0..2] /\ drawn'["secret"] = drawn["secret"] + 1
        /\ drawn'["recovery"] = drawn["recovery"] /\ drawn'["link"] = drawn["link"]
        /\ drawn'["code"] = drawn["code"] /\ Drawing("secret") \in Id /\ budget' = budget
    BY <1>1, AuthDraws DEF Kinds
  <1>3. swapped' \in BOOLEAN
    BY Zenon DEF Enrol
  <1>4. swapped' <=> (swapped \/ \E r \in Request : task[r].pc \in Held)
    BY Zenon DEF Enrol
  <1>5. /\ totp' \in [secret : Id \cup {None}, active : BOOLEAN, last : -1..MaxStep]
        /\ totp'.secret = drawn["secret"] + 1 /\ totp'.secret \in Id /\ ~totp'.active
        /\ drawn["secret"] \in 0..2
    BY <1>1, <1>2, SignInAssumption DEF Enrolled, Drawing, SignInTypeOK, Kinds
  <1>6. SignInTypeOK'
    BY <1>1, <1>2, <1>3, <1>5 DEF SignInTypeOK
  <1>7. TaskOK'
    <2>1. \A r \in Request : task[r].secret \in Int
      BY DEF SignInTypeOK, Id, None
    <2> QED
      BY <1>1, <1>2, <1>4, <1>5, <2>1 DEF TaskOK
  <1>8. DigitsOK'
    <2>1. \A s \in Id, t \in 0..MaxStep : uses[<<"digits", <<s, t>>>>] > 0 =>
             s <= drawn["secret"] /\ s # totp'.secret
      BY <1>5 DEF DigitsOK, Id
    <2>2. totp'.secret <= drawn'["secret"]
      BY <1>2, <1>5
    <2>3. \A s \in Id, t \in 0..MaxStep : uses[<<"digits", <<s, t>>>>] > 0 =>
             s <= drawn'["secret"]
      BY <1>2, <1>5, <2>1 DEF Id
    <2>4. ~swapped' => \A s \in Id \ rewound, t \in 0..MaxStep :
             uses[<<"digits", <<s, t>>>>] <= 1
      BY <1>4 DEF DigitsOK
    <2> QED
      BY <1>1, <1>5, <2>1, <2>2, <2>3, <2>4 DEF DigitsOK
  <1>9. ActiveIsProven'
    BY <1>5 DEF ActiveIsProven
  <1> QED
    BY <1>1, <1>2, <1>6, <1>7, <1>8, <1>9, AuthCodeKept, AuthRecoveryKept, AuthLinkKept

(* The enrolment that is there becomes active. *)
LEMMA AuthConfirm ==
    ASSUME SignInInv, NEW r \in Request, Confirm(r)
    PROVE  SignInInv'
  <1> USE DEF SignInInv
  <1>1. /\ UNCHANGED <<step, code, recovery, links, budget, drawn, uses, tries, proven>>
        /\ UNCHANGED swapped /\ task[r].pc = "confirm"
        /\ totp' = IF totp = NoTotp THEN totp ELSE Confirmed(task[r].at)
        /\ rewound' = IF totp'.last < totp.last THEN rewound \cup {totp.secret} ELSE rewound
        /\ task' = [task EXCEPT ![r].pc = "codes"]
    BY DEF Confirm, Goes
  <1>2. /\ task' \in [Request -> TaskType] /\ \A q \in Request : q # r => task'[q] = task[q]
        /\ task'[r].pc = "codes" /\ task'[r].secret = task[r].secret
    BY <1>1 DEF SignInTypeOK, TaskType
  <1>3. /\ task[r].at \in -1..MaxStep
        /\ ~swapped => totp.secret \in proven
    BY <1>1 DEF TaskOK, Held, SignInTypeOK
  <1>4. /\ totp' \in [secret : Id \cup {None}, active : BOOLEAN, last : -1..MaxStep]
        /\ totp'.secret = totp.secret
        /\ totp = NoTotp => totp' = totp
    BY <1>1, <1>3 DEF Confirmed, SignInTypeOK
  <1>5. /\ rewound \subseteq rewound' /\ rewound' \subseteq Id
        /\ totp.secret \notin rewound' => totp.last <= totp'.last
    <2>1. CASE totp = NoTotp
      <3>1. totp' = totp /\ totp.last \in Int /\ ~(totp'.last < totp.last)
        BY <1>4, <2>1 DEF SignInTypeOK
      <3> QED
        BY <1>1, <3>1 DEF SignInTypeOK
    <2>2. CASE totp # NoTotp
      <3>1. totp.secret \in Id
        BY <2>2 DEF DigitsOK
      <3>2. totp.last \in Int /\ totp'.last \in Int
        BY <1>4 DEF SignInTypeOK
      <3> QED
        BY <1>1, <3>1, <3>2 DEF SignInTypeOK
    <2> QED
      BY <2>1, <2>2
  <1>6. SignInTypeOK'
    BY <1>1, <1>2, <1>4, <1>5 DEF SignInTypeOK, TaskType
  <1>7. TaskOK'
    BY <1>1, <1>2, <1>4 DEF TaskOK, Held
  <1>8. DigitsOK'
    <2>1. totp.last \in Int /\ totp'.last \in Int
      BY <1>4 DEF SignInTypeOK
    <2>2. ~swapped => \A s \in Id \ rewound', t \in 0..MaxStep :
            /\ uses[<<"digits", <<s, t>>>>] <= 1
            /\ uses[<<"digits", <<s, t>>>>] > 0 /\ s = totp.secret => t <= totp'.last
      <3> SUFFICES ASSUME ~swapped, NEW s \in Id \ rewound', NEW t \in 0..MaxStep
                   PROVE  /\ uses[<<"digits", <<s, t>>>>] <= 1
                          /\ uses[<<"digits", <<s, t>>>>] > 0 /\ s = totp.secret =>
                                t <= totp'.last
        OBVIOUS
      <3>1. s \in Id \ rewound
        BY <1>5
      <3>2. /\ uses[<<"digits", <<s, t>>>>] <= 1
            /\ uses[<<"digits", <<s, t>>>>] > 0 /\ s = totp.secret => t <= totp.last
        BY <3>1 DEF DigitsOK
      <3>3. s = totp.secret => totp.last <= totp'.last
        BY <1>5
      <3>4. t \in Int
        OBVIOUS
      <3> QED
        BY <2>1, <3>2, <3>3, <3>4
    <2> QED
      BY <1>1, <1>4, <2>2 DEF DigitsOK
  <1>9. ActiveIsProven'
    BY <1>1, <1>3, <1>4 DEF ActiveIsProven
  <1> QED
    BY <1>1, <1>6, <1>7, <1>8, <1>9, AuthCodeKept, AuthRecoveryKept, AuthLinkKept

LEMMA AuthDisable ==
    ASSUME SignInInv, NEW r \in Request, Disable(r)
    PROVE  SignInInv'
  <1> USE DEF SignInInv
  <1>1. /\ UNCHANGED <<step, code, links, budget, drawn, uses, tries, proven, rewound>>
        /\ totp' = NoTotp /\ recovery' = {} /\ Ends(r)
    BY DEF Disable
  <1>2. /\ task' \in [Request -> TaskType] /\ \A q \in Request : q # r => task'[q] = task[q]
        /\ task'[r].pc \notin Held /\ task'[r].secret \in {None, task[r].secret}
    BY <1>1, AuthEnds
  <1>3. swapped' \in BOOLEAN
    BY Zenon DEF Disable
  <1>4. swapped' <=> (swapped \/ \E q \in Request \ {r} : task[q].pc \in Held)
    BY Zenon DEF Disable
  <1>5. /\ totp' \in [secret : Id \cup {None}, active : BOOLEAN, last : -1..MaxStep]
        /\ totp'.secret = None /\ ~totp'.active
    BY <1>1, SignInAssumption DEF NoTotp, None, Id
  <1>6. SignInTypeOK'
    BY <1>1, <1>2, <1>3, <1>5 DEF SignInTypeOK, TaskType
  <1>7. TaskOK'
    <2>1. 0 <= drawn["secret"]
      BY DEF SignInTypeOK, Kinds
    <2> QED
      BY <1>1, <1>2, <1>4, <2>1 DEF TaskOK, Held, None
  <1>8. DigitsOK'
    <2>1. \A s \in Id : s # None
      BY DEF Id, None
    <2> QED
      BY <1>1, <1>4, <1>5, <2>1 DEF DigitsOK
  <1>9. ActiveIsProven'
    BY <1>5 DEF ActiveIsProven
  <1> QED
    BY <1>1, <1>6, <1>7, <1>8, <1>9, AuthCodeKept, AuthRecoveryKept, AuthLinkKept

(* Recovery codes are used, and replaced by one that was not drawn before. *)
LEMMA AuthConsumeRecovery ==
    ASSUME SignInInv, NEW r \in Request, ConsumeRecovery(r)
    PROVE  SignInInv'
  <1> DEFINE x == task[r].spare
  <1> USE DEF SignInInv
  <1>1. /\ UNCHANGED <<step, code, totp, links, budget, drawn, tries, proven, rewound, swapped>>
        /\ recovery' = recovery \ {x}
        /\ Ends(r) \/ Passes(r)
    BY DEF ConsumeRecovery
  <1>2. /\ task' \in [Request -> TaskType] /\ \A q \in Request : q # r => task'[q] = task[q]
        /\ task'[r].pc \notin Held /\ task'[r].secret \in {None, task[r].secret}
    BY <1>1, AuthEnds
  <1>3. TaskOK'
    BY <1>1, <1>2, AuthTaskKept
  <1>4. CASE uses' = uses
    <2>1. SignInTypeOK'
      BY <1>1, <1>2, <1>4 DEF SignInTypeOK, TaskType
    <2> QED
      BY <1>1, <1>3, <1>4, <2>1, AuthCodeKept, AuthRecoveryKept, AuthLinkKept,
         AuthDigitsKept
  <1>5. CASE x \in recovery /\ Uses(<<"recovery", x>>)
    <2>1. x \in Id
      BY <1>5 DEF SignInTypeOK
    <2>2. /\ uses' \in [Credential -> Nat]
          /\ uses'[<<"recovery", x>>] = uses[<<"recovery", x>>] + 1
          /\ \A d \in Credential : d # <<"recovery", x>> => uses'[d] = uses[d]
      BY <1>5, <2>1, AuthCredential, AuthUses, ZenonT(40) DEF SignInTypeOK
    <2>3. /\ \A c \in Id : c # x => uses'[<<"recovery", c>>] = uses[<<"recovery", c>>]
          /\ \A c \in Id : uses'[<<"code", c>>] = uses[<<"code", c>>]
          /\ \A c \in Id : uses'[<<"link", c>>] = uses[<<"link", c>>]
          /\ \A s \in Id, t \in 0..MaxStep :
               uses'[<<"digits", <<s, t>>>>] = uses[<<"digits", <<s, t>>>>]
      BY <2>2, AuthCredential
    <2>4. uses[<<"recovery", x>>] = 0 /\ x <= drawn["recovery"]
      <3>1. uses[<<"recovery", x>>] \in Nat
        BY <2>1, AuthCredential DEF SignInTypeOK
      <3> QED
        BY <1>5, <2>1, <3>1 DEF RecoveryOK
    <2>5. SignInTypeOK'
      BY <1>1, <1>2, <2>2 DEF SignInTypeOK, TaskType
    <2>6. RecoveryOK'
      BY <1>1, <2>2, <2>3, <2>4 DEF RecoveryOK
    <2> QED
      BY <1>1, <1>3, <2>3, <2>5, <2>6, AuthCodeKept, AuthLinkKept, AuthDigitsKept
  <1> QED
    BY <1>4, <1>5 DEF ConsumeRecovery

LEMMA AuthReplaceRecovery ==
    ASSUME SignInInv, NEW r \in Request, ReplaceRecovery(r)
    PROVE  SignInInv'
  <1> USE DEF SignInInv
  <1>1. /\ UNCHANGED <<step, code, totp, links, uses, tries, proven, rewound, swapped>>
        /\ Draws("recovery") /\ recovery' = {Drawing("recovery")} /\ Ends(r)
    BY DEF ReplaceRecovery, accounts
  <1>2. /\ drawn' \in [Kinds -> 0..2] /\ drawn'["recovery"] = drawn["recovery"] + 1
        /\ drawn'["secret"] = drawn["secret"] /\ drawn'["link"] = drawn["link"]
        /\ drawn'["code"] = drawn["code"] /\ Drawing("recovery") \in Id /\ budget' = budget
    BY <1>1, AuthDraws DEF Kinds
  <1>3. /\ task' \in [Request -> TaskType] /\ \A q \in Request : q # r => task'[q] = task[q]
        /\ task'[r].pc \notin Held /\ task'[r].secret \in {None, task[r].secret}
    BY <1>1, AuthEnds
  <1>4. SignInTypeOK'
    BY <1>1, <1>2, <1>3 DEF SignInTypeOK, TaskType
  <1>5. RecoveryOK'
    <2>1. drawn["recovery"] \in 0..2
      BY DEF SignInTypeOK, Kinds
    <2> QED
      BY <1>1, <1>2, <2>1 DEF RecoveryOK, Drawing, Id
  <1>6. TaskOK'
    BY <1>1, <1>2, <1>3, AuthTaskKept
  <1> QED
    BY <1>1, <1>2, <1>4, <1>5, <1>6, AuthCodeKept, AuthLinkKept, AuthDigitsKept

(* Links are sent, expire and are used. *)
LEMMA AuthForgotPassword ==
    ASSUME SignInInv, ForgotPassword
    PROVE  SignInInv'
  <1> USE DEF SignInInv
  <1>1. /\ UNCHANGED <<step, code, totp, recovery, task, uses, tries, proven, rewound, swapped>>
        /\ Draws("link") /\ links' = links \cup {Drawing("link")}
    BY DEF ForgotPassword, accounts
  <1>2. /\ drawn' \in [Kinds -> 0..2] /\ drawn'["link"] = drawn["link"] + 1
        /\ drawn'["secret"] = drawn["secret"] /\ drawn'["recovery"] = drawn["recovery"]
        /\ drawn'["code"] = drawn["code"] /\ Drawing("link") \in Id /\ budget' = budget
    BY <1>1, AuthDraws DEF Kinds
  <1>3. SignInTypeOK'
    BY <1>1, <1>2 DEF SignInTypeOK
  <1>4. LinkOK'
    <2>1. drawn["link"] \in 0..2 /\ links \subseteq Id
      BY DEF SignInTypeOK, Kinds
    <2> QED
      BY <1>1, <1>2, <2>1 DEF LinkOK, Drawing, Id
  <1>5. TaskOK'
    BY <1>1, <1>2 DEF TaskOK
  <1> QED
    BY <1>1, <1>2, <1>3, <1>4, <1>5, AuthCodeKept, AuthRecoveryKept, AuthDigitsKept

LEMMA AuthExpireLink ==
    ASSUME SignInInv, PassStep \/ \E l \in Id : ExpireLink(l)
    PROVE  SignInInv'
  <1> USE DEF SignInInv
  <1>1. /\ UNCHANGED <<code, totp, recovery, budget, drawn, task>>
        /\ UNCHANGED <<uses, tries, proven, rewound, swapped>>
        /\ step' \in 0..MaxStep /\ links' \subseteq links
    <2>1. CASE PassStep
      BY <2>1, SignInAssumption DEF PassStep, rows, accounts, SignInTypeOK
    <2>2. ASSUME NEW l \in Id, ExpireLink(l)
          PROVE  /\ UNCHANGED <<step, code, totp, recovery, budget, drawn, task>>
                 /\ UNCHANGED <<uses, tries, proven, rewound, swapped>>
                 /\ links' \subseteq links
      BY <2>2 DEF ExpireLink, accounts
    <2> QED
      BY <2>1, <2>2 DEF SignInTypeOK
  <1>2. SignInTypeOK'
    BY <1>1 DEF SignInTypeOK
  <1>3. TaskOK'
    BY <1>1 DEF TaskOK
  <1> QED
    BY <1>1, <1>2, <1>3, AuthCodeKept, AuthRecoveryKept, AuthLinkKept, AuthDigitsKept

LEMMA AuthUseLink ==
    ASSUME SignInInv, NEW l \in Id, UseLink(l)
    PROVE  SignInInv'
  <1> USE DEF SignInInv
  <1>1. /\ UNCHANGED <<step, code, totp, recovery, budget, drawn, task, tries, proven>>
        /\ UNCHANGED <<rewound, swapped>>
        /\ l \in links /\ links' = links \ {l} /\ Uses(<<"link", l>>)
    BY DEF UseLink, Opens
  <1>2. /\ uses' \in [Credential -> Nat]
        /\ uses'[<<"link", l>>] = uses[<<"link", l>>] + 1
        /\ \A d \in Credential : d # <<"link", l>> => uses'[d] = uses[d]
    BY <1>1, AuthCredential, AuthUses DEF SignInTypeOK
  <1>3. /\ \A c \in Id : c # l => uses'[<<"link", c>>] = uses[<<"link", c>>]
        /\ \A c \in Id : uses'[<<"code", c>>] = uses[<<"code", c>>]
        /\ \A c \in Id : uses'[<<"recovery", c>>] = uses[<<"recovery", c>>]
        /\ \A s \in Id, t \in 0..MaxStep :
             uses'[<<"digits", <<s, t>>>>] = uses[<<"digits", <<s, t>>>>]
    BY <1>2, AuthCredential
  <1>4. uses[<<"link", l>>] = 0 /\ l <= drawn["link"]
    <2>1. uses[<<"link", l>>] \in Nat
      BY AuthCredential DEF SignInTypeOK
    <2> QED
      BY <1>1, <2>1 DEF LinkOK
  <1>5. SignInTypeOK'
    BY <1>1, <1>2 DEF SignInTypeOK
  <1>6. LinkOK'
    BY <1>1, <1>2, <1>3, <1>4 DEF LinkOK
  <1>7. TaskOK'
    BY <1>1 DEF TaskOK
  <1> QED
    BY <1>1, <1>3, <1>5, <1>6, <1>7, AuthCodeKept, AuthRecoveryKept, AuthDigitsKept

(* The conditions above hold of every state the sign-in handlers reach. *)
THEOREM AuthSignInInv == SignInSpec => []SignInInv
  <1>1. SignInInit => SignInInv
    BY AuthSignInInit
  <1>2. SignInInv /\ [SignInNext]_signInVars => SignInInv'
    <2> SUFFICES ASSUME SignInInv, [SignInNext]_signInVars PROVE SignInInv'
      OBVIOUS
    <2>1. CASE RequestCode \/ ExpireCode \/ Enrol \/ ForgotPassword \/ PassStep
      BY <2>1, AuthRequestCode, AuthExpireCode, AuthEnrol, AuthForgotPassword,
         AuthExpireLink
    <2>2. ASSUME NEW l \in Id, ExpireLink(l) \/ UseLink(l) PROVE SignInInv'
      BY <2>2, AuthExpireLink, AuthUseLink
    <2>3. ASSUME NEW r \in Request,
                 \/ Password(r) \/ NoFactor(r) \/ ShowWrong(r)
                 \/ \E c \in Id : ShowRecovery(r, c)
          PROVE  SignInInv'
      BY <2>3, AuthTaskStep
    <2>4. ASSUME NEW r \in Request,
                 \/ SpendCode(r) \/ ClaimStep(r) \/ ConsumeRecovery(r) \/ Confirm(r)
                 \/ ReplaceRecovery(r) \/ Disable(r)
                 \/ \E guess \in Id \cup {None} : CheckCode(r, guess)
          PROVE  SignInInv'
      BY <2>4, AuthSpendCode, AuthClaimStep, AuthConsumeRecovery, AuthConfirm,
         AuthReplaceRecovery, AuthDisable, AuthCheckCode
    <2>5. ASSUME NEW r \in Request, NEW at \in 0..MaxStep,
                 ShowDigits(r, at) \/ ShowForConfirm(r, at) \/ ShowForDisable(r, at)
          PROVE  SignInInv'
      BY <2>5, AuthShow
    <2>6. CASE UNCHANGED signInVars
      BY <2>6 DEF signInVars, SignInInv, SignInTypeOK, CodeOK, RecoveryOK, LinkOK, TaskOK,
                  DigitsOK, ActiveIsProven
    <2> QED
      BY <2>1, <2>2, <2>3, <2>4, <2>5, <2>6 DEF SignInNext
  <1> QED
    BY <1>1, <1>2, PTL DEF SignInSpec

(* With any number of requests at once, a code, a recovery code, a link    *)
(* and the digits of a step work once, a code stands MAX_TRIES guesses,    *)
(* and a second factor that is on was proven (claim_try, consume,          *)
(* claim_step, consume_recovery_code, consume_reset_jti, confirm).         *)
THEOREM AuthCodeSafety == SignInSpec => []CodeSafety
  <1>1. SignInInv => CodeSafety
    <2> SUFFICES ASSUME SignInInv PROVE CodeSafety
      OBVIOUS
    <2>1. SpentOnce
      BY DEF SpentOnce, SignInInv, CodeOK, RecoveryOK, LinkOK
    <2>2. DigitsOnce
      BY DEF DigitsOnce, SignInInv, DigitsOK, Digits
    <2>3. TriesBounded
      BY DEF TriesBounded, SignInInv, CodeOK
    <2> QED
      BY <2>1, <2>2, <2>3 DEF CodeSafety, SignInInv
  <1> QED
    BY <1>1, AuthSignInInv, PTL

(* Only the newest code signs in (spend_code against request_email_code). *)
THEOREM AuthReplacedIsDead == SignInSpec => ReplacedIsDead
  <1>1. SignInInv /\ [SignInNext]_signInVars =>
            [\A c \in Id : uses'[<<"code", c>>] > uses[<<"code", c>>] =>
                c = drawn["code"]]_signInVars
    <2> SUFFICES ASSUME SignInInv, SignInNext, NEW c \in Id,
                        uses'[<<"code", c>>] > uses[<<"code", c>>]
                 PROVE  c = drawn["code"]
      OBVIOUS
    <2>1. /\ uses \in [Credential -> Nat] /\ <<"code", c>> \in Credential
          /\ uses[<<"code", c>>] \in Nat /\ uses' # uses
      <3>1. <<"code", c>> \in Credential /\ uses \in [Credential -> Nat]
        BY AuthCredential DEF SignInInv, SignInTypeOK
      <3>2. uses[<<"code", c>>] \in Nat
        BY <3>1
      <3> QED
        BY <3>1, <3>2
    <2>2. ASSUME NEW d \in Credential, Uses(d) PROVE d = <<"code", c>>
      BY <2>1, <2>2, AuthUses
    <2>3. ASSUME NEW r \in Request, SpendCode(r) PROVE c = drawn["code"]
      <3>1. /\ code.live /\ code.id = task[r].code /\ code.id \in Id
            /\ code.id = drawn["code"] /\ Uses(<<"code", code.id>>)
        BY <2>1, <2>3 DEF SpendCode, Spends, SignInInv, CodeOK
      <3> QED
        BY <2>2, <3>1, AuthCredential
    <2>4. ASSUME NEW r \in Request, ClaimStep(r) PROVE FALSE
      <3>1. Uses(<<"digits", <<task[r].secret, task[r].at>>>>) /\ task[r].pc = "claim"
        BY <2>1, <2>4 DEF ClaimStep
      <3>2. task[r].secret \in Id /\ task[r].at \in 0..MaxStep
        BY <3>1 DEF SignInInv, SignInTypeOK, TaskOK
      <3> QED
        BY <2>2, <3>1, <3>2, AuthCredential
    <2>5. ASSUME NEW r \in Request, ConsumeRecovery(r) PROVE FALSE
      <3>1. Uses(<<"recovery", task[r].spare>>) /\ task[r].spare \in Id
        BY <2>1, <2>5 DEF ConsumeRecovery, SignInInv, SignInTypeOK
      <3> QED
        BY <2>2, <3>1, AuthCredential
    <2>6. ASSUME NEW l \in Id, UseLink(l) PROVE FALSE
      BY <2>2, <2>6, AuthCredential DEF UseLink
    <2>7. \/ \E r \in Request : SpendCode(r) \/ ClaimStep(r) \/ ConsumeRecovery(r)
          \/ \E l \in Id : UseLink(l)
      BY <2>1 DEF SignInNext, RequestCode, ExpireCode, Enrol, ForgotPassword, PassStep,
                  ExpireLink, Password, NoFactor, ShowWrong, Confirm, ReplaceRecovery, Disable,
                  CheckCode, ShowRecovery, ShowDigits, ShowForConfirm, ShowForDisable, accounts
    <2> QED
      BY <2>3, <2>4, <2>5, <2>6, <2>7
  <1> QED
    BY <1>1, AuthSignInInv, PTL DEF SignInSpec, ReplacedIsDead

-----------------------------------------------------------------------------
(* AppConnections. *)

AppConnectionSpec == AppConnectionInit /\ [][AppConnectionNext]_connectionVars

IssuedTokens == 1..Len(isFor)

(* What a request has read and received.  A token is refreshed for the     *)
(* account it was for.                                                     *)
RequestOK ==
    \A r \in Replica :
        /\ request[r].from # 0 => request[r].from \in IssuedTokens
        /\ request[r].token # 0 => request[r].token \in IssuedTokens
        /\ request[r].from # 0 <=> request[r].does \in {"refresh", "store"}
        /\ request[r].token # 0 <=> request[r].does \in {"upsert", "store"}
        /\ request[r].does = "store" => isFor[request[r].token] = isFor[request[r].from]

(* Both tokens of a row are sealed, and were issued. *)
TokensOK ==
    /\ Len(isFor) <= MaxTokens
    /\ Connected => \A k \in {"access", "refresh"} :
                        connection[k].n \in IssuedTokens /\ connection[k].key \in {"old", "new"}
    /\ ~rotates => spent = {}
    /\ spent \subseteq IssuedTokens

(* What the re-sealing has in hand: a token that was sealed with the old   *)
(* key.                                                                    *)
SealerOK ==
    /\ sealer.token # NoToken =>
           /\ sealer.does = "write" /\ sealer.token.key = "old"
           /\ sealer.token.n \in IssuedTokens
    /\ sealer.does = "rest" => sealer.of = "access"
    /\ sealer.does = "done" => sealer.of = "refresh"

(* A token that waits to be written is in nobody else's hands: nobody has  *)
(* read it, and the provider has not replaced it.                          *)
WaitingOK ==
    \A r \in Replica : request[r].token # 0 =>
        /\ request[r].token \notin spent
        /\ \A q \in Replica : /\ request[q].from # request[r].token
                              /\ q # r => request[q].token # request[r].token
        /\ request[r].token \notin {connection.access.n, connection.refresh.n, sealer.token.n}

(* Unless the member connected again meanwhile, everything in hand is of   *)
(* the account that is connected.                                          *)
SameAccountOK ==
    Connected /\ ~straddled =>
        /\ \A r \in Replica : request[r].from # 0 => isFor[request[r].from] = connection.account
        /\ sealer.token # NoToken => isFor[sealer.token.n] = connection.account

(* Where a re-sealing is that found every process on the new key: what it  *)
(* has passed is sealed with it, and stays so.                             *)
ResealedOK ==
    /\ mixed => everMixed
    /\ ~mixed =>
           /\ sealer.does = "write" \/ sealer.of = "refresh" =>
                  \A r \in Replica : sealsWith[r] = "new"
           /\ sealer.clean /\ sealer.of = "refresh" => connection.access.key # "old"
           /\ sealer.clean /\ sealer.does = "done" => connection.refresh.key # "old"
           /\ sealer.does = "write" /\ connection[sealer.of].key = "old" =>
                  connection[sealer.of] = sealer.token

(* Nobody is completing a connection for a member who is suspended.        *)
SuspendedOK ==
    member = "suspended" /\ ~late => \A r \in Replica : ~Completing(r)

AppConnectionInv ==
    /\ ConnectionTypeOK /\ RequestOK /\ TokensOK /\ SealerOK /\ WaitingOK /\ SameAccountOK
    /\ ResealedOK /\ SuspendedOK
    /\ AccountFits /\ CanRefresh /\ GoneHasNone

TokenType == [n : 0..MaxTokens, key : {"none", "old", "new"}]
RowType == [account : Account \cup {"none"}, access : TokenType, refresh : TokenType]
PreviewType == [does : {"rest", "upsert", "refresh", "store"},
                from : 0..MaxTokens, token : 0..MaxTokens]
SealerType == [does : {"rest", "list", "write", "done"}, of : {"access", "refresh"},
               token : TokenType, clean : BOOLEAN]

(* The type invariant in terms of these. *)
LEMMA AppTypes ==
    ConnectionTypeOK <=>
        /\ rotates \in BOOLEAN /\ taken \in 0..MaxLinks /\ connection \in RowType
        /\ isFor \in Seq(Account) /\ spent \subseteq 1..MaxTokens
        /\ request \in [Replica -> PreviewType] /\ sealsWith \in [Replica -> {"old", "new"}]
        /\ sealer \in SealerType /\ member \in {"active", "suspended", "out"}
        /\ straddled \in BOOLEAN /\ mixed \in BOOLEAN /\ everMixed \in BOOLEAN
        /\ late \in BOOLEAN /\ losses \in 0..MaxLosses
  BY Zenon DEF ConnectionTypeOK, TokenType, RowType, PreviewType, SealerType

LEMMA AppTyped ==
    ASSUME rotates' \in BOOLEAN /\ taken' \in 0..MaxLinks /\ connection' \in RowType,
           isFor' \in Seq(Account) /\ spent' \subseteq 1..MaxTokens,
           request' \in [Replica -> PreviewType], sealsWith' \in [Replica -> {"old", "new"}],
           sealer' \in SealerType /\ member' \in {"active", "suspended", "out"},
           straddled' \in BOOLEAN /\ mixed' \in BOOLEAN /\ everMixed' \in BOOLEAN,
           late' \in BOOLEAN /\ losses' \in 0..MaxLosses
    PROVE  ConnectionTypeOK'
  BY Zenon DEF ConnectionTypeOK, TokenType, RowType, PreviewType, SealerType

(* The records with nothing in them. *)
LEMMA AppNothing ==
    /\ NoToken \in TokenType /\ NoToken.n = 0 /\ NoToken.key = "none"
    /\ NoConnection \in RowType /\ NoConnection.access = NoToken
    /\ NoConnection.refresh = NoToken
    /\ NoConnection["access"] = NoToken /\ NoConnection["refresh"] = NoToken
    /\ Free \in PreviewType /\ Free.does = "rest" /\ Free.from = 0 /\ Free.token = 0
    /\ Sealing \in SealerType /\ Sealing.does = "rest" /\ Sealing.of = "access"
    /\ Sealing.token = NoToken /\ Sealing.clean = TRUE
  <1>1. NoToken \in TokenType /\ NoToken.n = 0 /\ NoToken.key = "none"
    BY AppConnectionAssumption DEF NoToken, TokenType
  <1>2. /\ NoConnection \in RowType /\ NoConnection.access = NoToken
        /\ NoConnection.refresh = NoToken
    BY <1>1 DEF NoConnection, RowType
  <1>3. Free \in PreviewType /\ Free.does = "rest" /\ Free.from = 0 /\ Free.token = 0
    BY AppConnectionAssumption DEF Free, PreviewType
  <1>4. /\ Sealing \in SealerType /\ Sealing.does = "rest" /\ Sealing.of = "access"
        /\ Sealing.token = NoToken /\ Sealing.clean = TRUE
    BY <1>1 DEF Sealing, SealerType
  <1> QED
    BY <1>1, <1>2, <1>3, <1>4

LEMMA AppInit == AppConnectionInit => AppConnectionInv
  <1> SUFFICES ASSUME AppConnectionInit PROVE AppConnectionInv
    OBVIOUS
  <1> USE AppConnectionAssumption, AppNothing DEF AppConnectionInit
  <1>1. ConnectionTypeOK
    <2>1. /\ rotates \in BOOLEAN /\ straddled \in BOOLEAN /\ mixed \in BOOLEAN
          /\ everMixed \in BOOLEAN /\ late \in BOOLEAN
      BY Zenon
    <2>2. /\ request \in [Replica -> PreviewType] /\ sealsWith \in [Replica -> {"old", "new"}]
          /\ isFor \in Seq(Account) /\ spent \subseteq 1..MaxTokens
          /\ taken \in 0..MaxLinks /\ losses \in 0..MaxLosses
      OBVIOUS
    <2>3. /\ connection \in RowType /\ sealer \in SealerType
          /\ member \in {"active", "suspended", "out"}
      OBVIOUS
    <2> QED
      BY <2>1, <2>2, <2>3, AppTypes, Zenon
  <1>2. \A r \in Replica : request[r] = Free
    OBVIOUS
  <1>3. ~Connected /\ Len(isFor) = 0 /\ \A r \in Replica : ~Completing(r)
    BY <1>2 DEF Connected, Completing
  <1>4. RequestOK /\ WaitingOK
    BY <1>2 DEF RequestOK, WaitingOK
  <1>5. TokensOK
    BY <1>3 DEF TokensOK
  <1>6. SealerOK /\ ResealedOK
    BY DEF SealerOK, ResealedOK
  <1> QED
    BY <1>1, <1>3, <1>4, <1>5, <1>6
    DEF AppConnectionInv, SameAccountOK, SuspendedOK, AccountFits, CanRefresh, GoneHasNone

(* A request is over; nobody else's moves. *)
LEMMA AppRests ==
    ASSUME ConnectionTypeOK, RequestOK, NEW r \in Replica, Rests(r), UNCHANGED isFor
    PROVE  /\ request' \in [Replica -> PreviewType] /\ request'[r] = Free
           /\ \A q \in Replica : q # r => request'[q] = request[q]
           /\ RequestOK'
  <1>1. /\ request' \in [Replica -> PreviewType] /\ request'[r] = Free
        /\ \A q \in Replica : q # r => request'[q] = request[q]
    BY AppTypes, AppNothing DEF Rests
  <1>2. RequestOK'
    BY <1>1, AppNothing DEF RequestOK, IssuedTokens
  <1> QED
    BY <1>1, <1>2

(* What is unaffected when a request is over and the row is as it was.     *)
LEMMA AppKept ==
    ASSUME AppConnectionInv, NEW r \in Replica, Rests(r),
           UNCHANGED <<connection, isFor, spent, rotates, straddled, member, late, taken>>,
           sealer'.token = sealer.token
    PROVE  /\ request' \in [Replica -> PreviewType] /\ RequestOK' /\ TokensOK' /\ WaitingOK'
           /\ SameAccountOK' /\ SuspendedOK' /\ AccountFits' /\ GoneHasNone'
  <1>1. /\ request' \in [Replica -> PreviewType] /\ request'[r] = Free
        /\ \A q \in Replica : q # r => request'[q] = request[q]
        /\ RequestOK'
    BY AppRests DEF AppConnectionInv
  <1>2. TokensOK'
    BY DEF AppConnectionInv, TokensOK, Connected, IssuedTokens
  <1>3. WaitingOK'
    BY <1>1, AppNothing DEF AppConnectionInv, WaitingOK
  <1>4. SameAccountOK'
    BY <1>1, AppNothing DEF AppConnectionInv, SameAccountOK, Connected
  <1>5. SuspendedOK'
    BY <1>1, AppNothing DEF AppConnectionInv, SuspendedOK, Completing
  <1>6. AccountFits' /\ GoneHasNone'
    BY DEF AppConnectionInv, AccountFits, GoneHasNone, Connected
  <1> QED
    BY <1>1, <1>2, <1>3, <1>4, <1>5, <1>6

(* One more token. *)
LEMMA AppIssues ==
    ASSUME ConnectionTypeOK, TokensOK, NEW a \in Account, Len(isFor) < MaxTokens,
           isFor' = Append(isFor, a)
    PROVE  /\ isFor' \in Seq(Account) /\ Len(isFor) \in Nat /\ Len(isFor') = Len(isFor) + 1
           /\ Len(isFor') <= MaxTokens /\ Len(isFor) + 1 \in 1..MaxTokens
           /\ \A n \in IssuedTokens : n \in Nat /\ n # Len(isFor) + 1 /\ n \in IssuedTokens'
                                      /\ isFor'[n] = isFor[n]
           /\ Len(isFor) + 1 \in IssuedTokens' /\ isFor'[Len(isFor) + 1] = a
  <1>1. isFor \in Seq(Account)
    BY AppTypes
  <1>2. Len(isFor) \in Nat /\ isFor' \in Seq(Account) /\ Len(isFor') = Len(isFor) + 1
    BY <1>1
  <1>3. \A n \in 1..Len(isFor) : isFor'[n] = isFor[n]
    BY <1>1
  <1>4. isFor'[Len(isFor) + 1] = a
    BY <1>1
  <1> QED
    BY <1>2, <1>3, <1>4, AppConnectionAssumption DEF IssuedTokens

LEMMA AppCompletes ==
    ASSUME AppConnectionInv, NEW r \in Replica, CompleteConnection(r)
    PROVE  AppConnectionInv'
  <1> DEFINE n == Len(isFor) + 1
  <1>1. /\ ConnectionTypeOK /\ RequestOK /\ TokensOK /\ WaitingOK /\ SealerOK
        /\ UNCHANGED <<rotates, spent, connection, keyVars, member, straddled, late, losses>>
        /\ request[r] = Free /\ member = "active"
    BY DEF AppConnectionInv, CompleteConnection
  <1>2. PICK a \in Account : isFor' = Append(isFor, a)
    BY DEF CompleteConnection
  <1>3. /\ isFor' \in Seq(Account) /\ n \in 1..MaxTokens /\ Len(isFor') <= MaxTokens
        /\ \A i \in IssuedTokens : i \in Nat /\ i # n /\ i \in IssuedTokens' /\ isFor'[i] = isFor[i]
        /\ n \in IssuedTokens'
    BY <1>1, <1>2, AppIssues DEF CompleteConnection
  <1>4. /\ request' = [request EXCEPT ![r].does = "upsert", ![r].token = n]
        /\ taken' \in 0..MaxLinks
    BY <1>1, AppTypes, AppConnectionAssumption DEF CompleteConnection
  <1> HIDE DEF n
  <1>5. /\ request' \in [Replica -> PreviewType]
        /\ request'[r].does = "upsert" /\ request'[r].token = n /\ request'[r].from = 0
        /\ \A q \in Replica : q # r => request'[q] = request[q]
    <2>1. request \in [Replica -> PreviewType]
      BY <1>1, AppTypes
    <2> QED
      BY <1>1, <1>3, <1>4, <2>1, AppNothing, AppConnectionAssumption DEF PreviewType
  <1>6. n # 0 /\ \A q \in Replica : q # r => request[q].from # n /\ request[q].token # n
    BY <1>1, <1>3 DEF RequestOK
  <1>7. /\ n \notin spent
        /\ n \notin {connection.access.n, connection.refresh.n, sealer.token.n}
    <2>1. Connected => connection.access.n # n /\ connection.refresh.n # n
      BY <1>1, <1>3 DEF TokensOK
    <2>2. ~Connected => connection.access.n # n /\ connection.refresh.n # n
      BY <1>6, AppNothing DEF Connected
    <2>3. sealer.token.n # n
      BY <1>1, <1>3, <1>6, AppNothing DEF SealerOK
    <2> QED
      BY <1>1, <1>3, <2>1, <2>2, <2>3 DEF TokensOK
  <1>8. ConnectionTypeOK'
    BY <1>1, <1>3, <1>4, <1>5, AppTypes, AppTyped, Zenon DEF keyVars
  <1>9. RequestOK'
    BY <1>1, <1>3, <1>5, <1>6 DEF RequestOK
  <1>10. TokensOK'
    BY <1>1, <1>3 DEF TokensOK, Connected
  <1>11. SealerOK'
    BY <1>1, <1>3 DEF SealerOK, keyVars
  <1>12. WaitingOK'
    BY <1>1, <1>3, <1>5, <1>6, <1>7 DEF WaitingOK, RequestOK, keyVars
  <1>13. SameAccountOK'
    BY <1>1, <1>3, <1>5 DEF AppConnectionInv, SameAccountOK, Connected, keyVars,
       RequestOK, SealerOK
  <1>14. ResealedOK'
    BY <1>1 DEF AppConnectionInv, ResealedOK, keyVars
  <1>15. SuspendedOK' /\ GoneHasNone'
    BY <1>1 DEF AppConnectionInv, SuspendedOK, GoneHasNone, Connected
  <1>16. AccountFits'
    BY <1>1, <1>3 DEF AppConnectionInv, AccountFits, Connected, TokensOK
  <1>17. CanRefresh'
    BY <1>1, <1>5, AppNothing DEF AppConnectionInv, CanRefresh, Connected, keyVars
  <1> QED
    BY <1>8, <1>9, <1>10, <1>11, <1>12, <1>13, <1>14, <1>15, <1>16, <1>17
       DEF AppConnectionInv

LEMMA AppUpserts ==
    ASSUME AppConnectionInv, NEW r \in Replica, UpsertConnection(r)
    PROVE  AppConnectionInv'
  <1> DEFINE n == request[r].token
  <1>1. /\ ConnectionTypeOK /\ RequestOK /\ TokensOK /\ WaitingOK /\ SealerOK
        /\ UNCHANGED <<provider, taken, keyVars, member, late, losses>>
        /\ request[r].does = "upsert" /\ Rests(r)
    BY DEF AppConnectionInv, UpsertConnection
  <1>2. /\ n \in IssuedTokens /\ n # 0 /\ request[r].from = 0 /\ n \in 0..MaxTokens
        /\ isFor[n] \in Account
    <2>1. request[r] \in PreviewType /\ isFor \in Seq(Account)
      BY <1>1, AppTypes
    <2>2. n \in IssuedTokens /\ n # 0 /\ request[r].from = 0
      BY <1>1 DEF RequestOK
    <2> QED
      BY <2>1, <2>2 DEF PreviewType, IssuedTokens
  <1>3. /\ request' \in [Replica -> PreviewType] /\ request'[r] = Free
        /\ \A q \in Replica : q # r => request'[q] = request[q]
        /\ RequestOK'
    BY <1>1, AppRests DEF provider
  <1>4. SealerOK'
    BY <1>1 DEF SealerOK, keyVars, provider, IssuedTokens
  <1>5. CASE UNCHANGED <<connection, straddled>>
    <2>1. /\ TokensOK' /\ WaitingOK' /\ SameAccountOK' /\ SuspendedOK' /\ AccountFits'
          /\ GoneHasNone'
      BY <1>1, <1>5, AppKept DEF provider, keyVars
    <2>2. ConnectionTypeOK'
      BY <1>1, <1>3, <1>5, AppTypes, AppTyped, Zenon DEF provider, keyVars
    <2>3. ResealedOK'
      BY <1>1, <1>5 DEF AppConnectionInv, ResealedOK, keyVars
    <2>4. CanRefresh'
      BY <1>1, <1>3, <1>5 DEF AppConnectionInv, CanRefresh, Connected, provider, keyVars
    <2> QED
      BY <1>3, <1>4, <2>1, <2>2, <2>3, <2>4 DEF AppConnectionInv
  <1>6. CASE /\ MayConnect
             /\ connection' = [account |-> isFor[n], access |-> Token(r), refresh |-> Token(r)]
             /\ straddled' = (straddled \/ InUse)
    <2>1. /\ sealsWith[r] \in {"old", "new"} /\ Token(r) \in TokenType
          /\ Token(r).n = n /\ Token(r).key = sealsWith[r]
      <3>1. sealsWith[r] \in {"old", "new"}
        BY <1>1, AppTypes
      <3> QED
        BY <1>2, <3>1 DEF Token, TokenType
    <2>2. /\ connection' \in RowType /\ connection'.account = isFor[n]
          /\ connection'["access"] = Token(r) /\ connection'["refresh"] = Token(r)
          /\ connection'.access = Token(r) /\ connection'.refresh = Token(r)
      BY <1>2, <1>6, <2>1 DEF RowType
    <2>3. ConnectionTypeOK'
      <3>1. (straddled \/ InUse) \in BOOLEAN
        BY Zenon
      <3> QED
        BY <1>1, <1>3, <1>6, <2>2, <3>1, AppTypes, AppTyped, Zenon DEF provider, keyVars
    <2>4. TokensOK'
      BY <1>1, <1>2, <2>1, <2>2 DEF TokensOK, IssuedTokens, provider
    <2>5. WaitingOK'
      BY <1>1, <1>2, <1>3, <2>1, <2>2, AppNothing DEF WaitingOK, provider, keyVars
    <2>6. ~straddled' => ~straddled /\ ~InUse
      BY <1>6
    <2>7. SameAccountOK'
      BY <1>1, <1>3, <2>6, AppNothing DEF SameAccountOK, InUse, keyVars
    <2>8. AccountFits'
      BY <1>1, <2>1, <2>2 DEF AccountFits, provider
    <2>9. ResealedOK'
      <3>1. sealer.of \in {"access", "refresh"}
        BY <1>1, AppTypes DEF SealerType
      <3>2. connection'[sealer.of].key = sealsWith[r]
        BY <2>1, <2>2, <3>1
      <3>3. UNCHANGED <<sealer, mixed, everMixed, sealsWith>>
        BY <1>1 DEF keyVars
      <3>4. ~mixed /\ (sealer.does \in {"write", "done"} \/ sealer.of = "refresh") =>
                sealsWith[r] = "new"
        BY <1>1 DEF AppConnectionInv, ResealedOK, SealerOK
      <3> QED
        BY <1>1, <2>1, <2>2, <3>2, <3>3, <3>4 DEF AppConnectionInv, ResealedOK
    <2>10. SuspendedOK' /\ GoneHasNone'
      <3>1. member # "out" /\ (member = "suspended" => late)
        BY <1>1, <1>6 DEF AppConnectionInv, SuspendedOK, Completing, MayConnect
      <3> QED
        BY <1>1, <3>1 DEF SuspendedOK, GoneHasNone
    <2>11. CanRefresh'
      <3>1. Token(r) # NoToken /\ n \notin spent
        BY <1>1, <1>2, <2>1, AppNothing DEF WaitingOK
      <3> QED
        BY <1>1, <2>1, <2>2, <3>1 DEF CanRefresh, provider
    <2> QED
      BY <1>3, <1>4, <2>3, <2>4, <2>5, <2>7, <2>8, <2>9, <2>10, <2>11 DEF AppConnectionInv
  <1> QED
    BY <1>5, <1>6 DEF UpsertConnection

LEMMA AppOpens ==
    ASSUME AppConnectionInv, NEW r \in Replica, OpenRefreshToken(r)
    PROVE  AppConnectionInv'
  <1> DEFINE n == connection.refresh.n
  <1>1. /\ ConnectionTypeOK /\ RequestOK /\ TokensOK /\ WaitingOK
        /\ UNCHANGED <<provider, taken, connection, keyVars, member, straddled, late, losses>>
        /\ request[r] = Free /\ Connected
        /\ request' = [request EXCEPT ![r].does = "refresh", ![r].from = n]
    BY DEF AppConnectionInv, OpenRefreshToken
  <1>2. n \in IssuedTokens /\ n # 0 /\ n \in 0..MaxTokens
    <2>1. n \in IssuedTokens /\ isFor \in Seq(Account) /\ Len(isFor) <= MaxTokens
      BY <1>1, AppTypes DEF TokensOK
    <2> QED
      BY <2>1, AppConnectionAssumption DEF IssuedTokens
  <1>3. /\ request' \in [Replica -> PreviewType]
        /\ request'[r].does = "refresh" /\ request'[r].token = 0 /\ request'[r].from = n
        /\ \A q \in Replica : q # r => request'[q] = request[q]
    <2>1. request \in [Replica -> PreviewType]
      BY <1>1, AppTypes
    <2> HIDE DEF n
    <2> QED
      BY <1>1, <1>2, <2>1, AppNothing DEF PreviewType
  <1>4. ConnectionTypeOK'
    BY <1>1, <1>3, AppTypes, AppTyped, Zenon DEF provider, keyVars
  <1>5. RequestOK'
    BY <1>1, <1>2, <1>3 DEF RequestOK, provider, IssuedTokens
  <1>6. TokensOK' /\ SealerOK' /\ ResealedOK' /\ AccountFits' /\ GoneHasNone'
    BY <1>1 DEF AppConnectionInv, TokensOK, SealerOK, ResealedOK, AccountFits, GoneHasNone,
                Connected, IssuedTokens, provider, keyVars
  <1>7. WaitingOK'
    BY <1>1, <1>2, <1>3 DEF WaitingOK, provider, keyVars
  <1>8. SameAccountOK'
    BY <1>1, <1>2, <1>3 DEF AppConnectionInv, SameAccountOK, AccountFits, Connected,
       provider, keyVars
  <1>9. SuspendedOK'
    BY <1>1, <1>3 DEF AppConnectionInv, SuspendedOK, Completing
  <1>10. CanRefresh'
    BY <1>1, <1>3, AppNothing DEF AppConnectionInv, CanRefresh, Connected, provider, keyVars
  <1> QED
    BY <1>4, <1>5, <1>6, <1>7, <1>8, <1>9, <1>10 DEF AppConnectionInv

LEMMA AppRefreshes ==
    ASSUME AppConnectionInv, NEW r \in Replica, RefreshTokens(r)
    PROVE  AppConnectionInv'
  <1> DEFINE from == request[r].from
             n == Len(isFor) + 1
  <1>1. /\ ConnectionTypeOK /\ RequestOK /\ TokensOK /\ WaitingOK /\ SealerOK
        /\ UNCHANGED <<rotates, taken, connection, keyVars, member, straddled, late, losses>>
        /\ request[r].does = "refresh"
    BY DEF AppConnectionInv, RefreshTokens
  <1>2. /\ from \in IssuedTokens /\ from # 0 /\ request[r].token = 0 /\ from \in 0..MaxTokens
        /\ isFor[from] \in Account
    <2>1. request[r] \in PreviewType /\ isFor \in Seq(Account)
      BY <1>1, AppTypes
    <2>2. from \in IssuedTokens /\ from # 0 /\ request[r].token = 0
      BY <1>1 DEF RequestOK
    <2> QED
      BY <2>1, <2>2 DEF PreviewType, IssuedTokens
  <1>3. UNCHANGED <<sealer, sealsWith, mixed, everMixed>>
    BY <1>1 DEF keyVars
  <1>4. ResealedOK'
    BY <1>1, <1>3 DEF AppConnectionInv, ResealedOK
  <1>5. CASE Rests(r) /\ UNCHANGED <<isFor, spent>>
    <2>1. /\ request' \in [Replica -> PreviewType] /\ RequestOK' /\ TokensOK' /\ WaitingOK'
          /\ SameAccountOK' /\ SuspendedOK' /\ AccountFits' /\ GoneHasNone'
      BY <1>1, <1>3, <1>5, AppKept
    <2>2. /\ request'[r] = Free
          /\ \A q \in Replica : q # r => request'[q] = request[q]
      BY <1>1, <1>5, AppRests
    <2>3. ConnectionTypeOK'
      BY <1>1, <1>3, <1>5, <2>1, AppTypes, AppTyped, Zenon
    <2>4. SealerOK'
      BY <1>1, <1>3, <1>5 DEF SealerOK, IssuedTokens
    <2>5. CanRefresh'
      BY <1>1, <1>3, <1>5, <2>2 DEF AppConnectionInv, CanRefresh, Connected
    <2> QED
      BY <1>4, <2>1, <2>3, <2>4, <2>5 DEF AppConnectionInv
  <1>6. CASE /\ from \notin spent /\ Len(isFor) < MaxTokens
             /\ isFor' = Append(isFor, isFor[from])
             /\ spent' = IF rotates THEN spent \cup {from} ELSE spent
             /\ request' = [request EXCEPT ![r].does = "store", ![r].token = n]
    <2>1. /\ isFor' \in Seq(Account) /\ n \in 1..MaxTokens /\ Len(isFor') <= MaxTokens
          /\ \A i \in IssuedTokens : /\ i \in Nat /\ i # n /\ i \in IssuedTokens'
                                     /\ isFor'[i] = isFor[i]
          /\ n \in IssuedTokens' /\ isFor'[n] = isFor[from]
      BY <1>1, <1>2, <1>6, AppIssues
    <2> HIDE DEF n
    <2>2. /\ request' \in [Replica -> PreviewType]
          /\ request'[r].does = "store" /\ request'[r].token = n /\ request'[r].from = from
          /\ \A q \in Replica : q # r => request'[q] = request[q]
      <3>1. request \in [Replica -> PreviewType]
        BY <1>1, AppTypes
      <3> DEFINE w == [request[r] EXCEPT !.does = "store", !.token = n]
      <3>2. request' = [request EXCEPT ![r] = w]
        BY <1>6, <3>1
      <3>3. w \in PreviewType /\ w.does = "store" /\ w.token = n /\ w.from = from
        <4>1. request[r] \in PreviewType /\ n \in 0..MaxTokens
          BY <2>1, <3>1, AppConnectionAssumption
        <4>2. "store" \in {"rest", "upsert", "refresh", "store"}
          OBVIOUS
        <4> QED
          BY <4>1, <4>2 DEF PreviewType
      <3> HIDE DEF w
      <3> QED
        BY <3>1, <3>2, <3>3
    <2>3. /\ n # 0 /\ n # from
          /\ \A q \in Replica : q # r => request[q].from # n /\ request[q].token # n
      BY <1>1, <1>2, <2>1 DEF RequestOK
    <2>4. /\ n \notin spent'
          /\ n \notin {connection.access.n, connection.refresh.n, sealer.token.n}
      <3>1. Connected => connection.access.n # n /\ connection.refresh.n # n
        BY <1>1, <2>1 DEF TokensOK
      <3>2. ~Connected => connection.access.n # n /\ connection.refresh.n # n
        BY <2>3, AppNothing DEF Connected
      <3>3. sealer.token.n # n
        BY <1>1, <2>1, <2>3, AppNothing DEF SealerOK
      <3> QED
        BY <1>1, <1>6, <2>1, <2>3, <3>1, <3>2, <3>3 DEF TokensOK
    <2>5. /\ spent' \subseteq spent \cup {from} /\ spent \subseteq spent'
          /\ spent' \subseteq 1..MaxTokens /\ (~rotates => spent' = spent)
      <3>1. spent \subseteq 1..MaxTokens /\ from \in 1..MaxTokens
        BY <1>1, <1>2, AppTypes, AppConnectionAssumption
      <3> QED
        BY <1>6, <3>1
    <2>6. ConnectionTypeOK'
      BY <1>1, <1>3, <2>1, <2>2, <2>5, AppTypes, AppTyped, Zenon
    <2>7. RequestOK'
      BY <1>1, <1>2, <2>1, <2>2, <2>3 DEF RequestOK
    <2>8. TokensOK'
      BY <1>1, <1>2, <2>1, <2>5 DEF TokensOK, Connected
    <2>9. SealerOK'
      BY <1>1, <1>3, <2>1 DEF SealerOK
    <2>10. WaitingOK'
      BY <1>1, <1>3, <2>1, <2>2, <2>3, <2>4, <2>5 DEF WaitingOK, RequestOK
    <2>11. SameAccountOK'
      BY <1>1, <1>2, <1>3, <2>1, <2>2
      DEF AppConnectionInv, SameAccountOK, Connected, RequestOK, SealerOK
    <2>12. AccountFits' /\ GoneHasNone'
      BY <1>1, <2>1 DEF AppConnectionInv, AccountFits, GoneHasNone, Connected, TokensOK
    <2>13. SuspendedOK'
      BY <1>1, <2>2 DEF AppConnectionInv, SuspendedOK, Completing
    <2>14. CanRefresh'
      BY <1>1, <1>3, <2>2, <2>5 DEF AppConnectionInv, CanRefresh, Connected
    <2> QED
      BY <1>4, <2>6, <2>7, <2>8, <2>9, <2>10, <2>11, <2>12, <2>13, <2>14
         DEF AppConnectionInv
  <1> QED
    BY <1>5, <1>6 DEF RefreshTokens

LEMMA AppStores ==
    ASSUME AppConnectionInv, NEW r \in Replica, StoreRefreshedTokens(r)
    PROVE  AppConnectionInv'
  <1> DEFINE n == request[r].token
  <1>1. /\ ConnectionTypeOK /\ RequestOK /\ TokensOK /\ WaitingOK /\ SealerOK
        /\ UNCHANGED <<rotates, isFor, spent, taken, member, straddled, late>>
        /\ UNCHANGED <<sealer, sealsWith, mixed, everMixed>>
        /\ request[r].does = "store" /\ Rests(r)
    BY DEF AppConnectionInv, StoreRefreshedTokens, provider, keyVars
  <1>2. /\ request' \in [Replica -> PreviewType] /\ request'[r] = Free
        /\ \A q \in Replica : q # r => request'[q] = request[q]
        /\ RequestOK'
    BY <1>1, AppRests
  <1>3. SealerOK'
    BY <1>1 DEF SealerOK, IssuedTokens
  <1>4. CASE Lose /\ UNCHANGED connection
    <2>1. losses' \in 0..MaxLosses /\ losses' # 0
      BY <1>1, <1>4, AppTypes, AppConnectionAssumption DEF Lose
    <2>2. /\ TokensOK' /\ WaitingOK' /\ SameAccountOK' /\ SuspendedOK' /\ AccountFits'
          /\ GoneHasNone'
      BY <1>1, <1>4, AppKept
    <2>3. ConnectionTypeOK'
      BY <1>1, <1>2, <1>4, <2>1, AppTypes, AppTyped, Zenon
    <2>4. ResealedOK' /\ CanRefresh'
      BY <1>1, <1>4, <2>1 DEF AppConnectionInv, ResealedOK, CanRefresh
    <2> QED
      BY <1>2, <1>3, <2>2, <2>3, <2>4 DEF AppConnectionInv
  <1>5. CASE ~Connected /\ UNCHANGED <<connection, losses>>
    <2>1. /\ TokensOK' /\ WaitingOK' /\ SameAccountOK' /\ SuspendedOK' /\ AccountFits'
          /\ GoneHasNone'
      BY <1>1, <1>5, AppKept
    <2>2. ConnectionTypeOK'
      BY <1>1, <1>2, <1>5, AppTypes, AppTyped, Zenon
    <2>3. ResealedOK' /\ CanRefresh'
      BY <1>1, <1>5 DEF AppConnectionInv, ResealedOK, CanRefresh, Connected
    <2> QED
      BY <1>2, <1>3, <2>1, <2>2, <2>3 DEF AppConnectionInv
  <1>6. CASE /\ Connected /\ UNCHANGED losses
             /\ connection' = [connection EXCEPT !.access = Token(r), !.refresh = Renewed(r)]
    <2>1. /\ n \in IssuedTokens /\ n # 0 /\ n \in 0..MaxTokens /\ request[r].from # 0
          /\ isFor[n] = isFor[request[r].from]
      <3>1. request[r] \in PreviewType
        BY <1>1, AppTypes
      <3> QED
        BY <1>1, <3>1 DEF PreviewType, RequestOK
    <2>2. /\ sealsWith[r] \in {"old", "new"} /\ Token(r) \in TokenType
          /\ Token(r).n = n /\ Token(r).key = sealsWith[r]
      <3>1. sealsWith[r] \in {"old", "new"}
        BY <1>1, AppTypes
      <3> QED
        BY <2>1, <3>1 DEF Token, TokenType
    <2>3. /\ connection \in RowType /\ Renewed(r) \in TokenType
          /\ rotates => Renewed(r) = Token(r)
          /\ ~rotates => Renewed(r) = connection.refresh
      BY <1>1, <2>2, AppTypes DEF Renewed, RowType
    <2>4. /\ connection' \in RowType /\ connection'.account = connection.account
          /\ connection'["access"] = Token(r) /\ connection'["refresh"] = Renewed(r)
          /\ connection'.access = Token(r) /\ connection'.refresh = Renewed(r)
      BY <1>6, <2>2, <2>3 DEF RowType
    <2>5. ConnectionTypeOK'
      BY <1>1, <1>2, <1>6, <2>4, AppTypes, AppTyped, Zenon
    <2>6. TokensOK'
      BY <1>1, <1>6, <2>1, <2>2, <2>3, <2>4 DEF TokensOK, IssuedTokens
    <2>7. WaitingOK'
      BY <1>1, <1>2, <2>1, <2>2, <2>3, <2>4, AppNothing DEF WaitingOK
    <2>8. SameAccountOK'
      BY <1>1, <1>2, <1>6, <2>4, AppNothing DEF AppConnectionInv, SameAccountOK
    <2>9. AccountFits'
      BY <1>1, <1>6, <2>1, <2>2, <2>3, <2>4 DEF AppConnectionInv, AccountFits, SameAccountOK
    <2>10. ResealedOK'
      <3>1. sealer.of \in {"access", "refresh"}
        BY <1>1, AppTypes DEF SealerType
      <3>2. ~mixed /\ (sealer.does \in {"write", "done"} \/ sealer.of = "refresh") =>
                sealsWith[r] = "new"
        BY <1>1 DEF AppConnectionInv, ResealedOK, SealerOK
      <3>3. \/ connection'[sealer.of].key = sealsWith[r]
            \/ sealer.of = "refresh" /\ connection'[sealer.of] = connection[sealer.of]
        BY <2>2, <2>3, <2>4, <3>1
      <3>4. \/ connection'.refresh.key = sealsWith[r]
            \/ connection'.refresh = connection.refresh
        BY <2>2, <2>3, <2>4
      <3> QED
        BY <1>1, <2>2, <2>4, <3>2, <3>3, <3>4 DEF AppConnectionInv, ResealedOK, SealerOK
    <2>11. SuspendedOK' /\ GoneHasNone'
      BY <1>1, <1>2, <1>6, AppNothing DEF AppConnectionInv, SuspendedOK, GoneHasNone,
         Completing
    <2>12. CanRefresh'
      <3>1. Token(r) # NoToken /\ n \notin spent
        BY <1>1, <2>1, <2>2, AppNothing DEF WaitingOK
      <3>2. ~rotates => spent = {} /\ connection.refresh # NoToken
        BY <1>1, <1>6, AppNothing DEF TokensOK, AppConnectionInv
      <3> QED
        BY <1>1, <2>2, <2>3, <2>4, <3>1, <3>2 DEF CanRefresh
    <2> QED
      BY <1>2, <1>3, <2>5, <2>6, <2>7, <2>8, <2>9, <2>10, <2>11, <2>12 DEF AppConnectionInv
  <1> QED
    BY <1>4, <1>5, <1>6 DEF StoreRefreshedTokens

(* The row goes. *)
LEMMA AppDeletes ==
    ASSUME AppConnectionInv, Disconnect \/ SuspendMember \/ LeaveWorkspace
    PROVE  AppConnectionInv'
  <1>1. /\ ConnectionTypeOK /\ connection' = NoConnection
        /\ UNCHANGED <<rotates, isFor, spent, taken, request, straddled, losses>>
        /\ UNCHANGED <<sealer, sealsWith, mixed, everMixed>>
    BY DEF AppConnectionInv, Disconnect, SuspendMember, LeaveWorkspace, provider, keyVars
  <1>2. ~Connected'
    BY <1>1 DEF Connected
  <1>3. /\ member' \in {"active", "suspended", "out"} /\ late' \in BOOLEAN
        /\ member' = "suspended" /\ ~late' => \A r \in Replica : ~Completing(r)
    <2>1. CASE Disconnect \/ LeaveWorkspace
      BY <1>1, <2>1, AppTypes DEF Disconnect, LeaveWorkspace, AppConnectionInv, SuspendedOK
    <2>2. CASE SuspendMember
      <3>1. (\E r \in Replica : Completing(r)) \in BOOLEAN
        BY Zenon
      <3> QED
        BY <2>2, <3>1 DEF SuspendMember
    <2> QED
      BY <2>1, <2>2
  <1>4. ConnectionTypeOK'
    BY <1>1, <1>3, AppTypes, AppTyped, AppNothing, Zenon
  <1>5. RequestOK' /\ SealerOK'
    BY <1>1 DEF AppConnectionInv, RequestOK, SealerOK, IssuedTokens
  <1>6. TokensOK'
    BY <1>1, <1>2 DEF AppConnectionInv, TokensOK, IssuedTokens
  <1>7. WaitingOK'
    BY <1>1, AppNothing DEF AppConnectionInv, WaitingOK
  <1>8. ResealedOK'
    <2>1. sealer.of \in {"access", "refresh"}
      BY <1>1, AppTypes DEF SealerType
    <2>2. connection'[sealer.of].key = "none"
      BY <1>1, <2>1, AppNothing
    <2> QED
      BY <1>1, <2>2, AppNothing DEF AppConnectionInv, ResealedOK
  <1>9. SuspendedOK'
    BY <1>1, <1>3 DEF SuspendedOK, Completing
  <1> QED
    BY <1>2, <1>4, <1>5, <1>6, <1>7, <1>8, <1>9
    DEF AppConnectionInv, SameAccountOK, AccountFits, CanRefresh, GoneHasNone

LEMMA AppPromotes ==
    ASSUME AppConnectionInv, NEW r \in Replica, Promote(r)
    PROVE  AppConnectionInv'
  <1>1. /\ ConnectionTypeOK /\ RequestOK /\ SealerOK /\ Rests(r)
        /\ UNCHANGED <<rotates, isFor, spent, taken, connection, member, straddled, mixed,
                       everMixed, late>>
        /\ IF request[r].does = "store" THEN Lose ELSE UNCHANGED losses
    BY DEF AppConnectionInv, Promote, provider
  <1>2. /\ request'[r] = Free
        /\ \A q \in Replica : q # r => request'[q] = request[q]
    BY <1>1, AppRests
  <1>3. /\ sealsWith' \in [Replica -> {"old", "new"}]
        /\ \A q \in Replica : sealsWith[q] = "new" => sealsWith'[q] = "new"
    BY <1>1, AppTypes DEF Promote
  <1>4. /\ losses' \in 0..MaxLosses
        /\ losses' = 0 => losses = 0 /\ request[r].does # "store"
    <2>1. losses \in 0..MaxLosses
      BY <1>1, AppTypes
    <2> QED
      BY <1>1, <2>1, AppConnectionAssumption DEF Lose
  <1>5. \/ UNCHANGED sealer
        \/ /\ sealer.does \in {"rest", "done"} /\ sealer'.does = "list"
           /\ sealer'.of = "access" /\ sealer'.token = NoToken /\ sealer' \in SealerType
    <2>1. CASE sealer.does \in {"rest", "done"} /\ sealer' = [Sealing EXCEPT !.does = "list"]
      BY <2>1, AppNothing DEF SealerType
    <2> QED
      BY <2>1 DEF Promote
  <1>6. sealer' \in SealerType /\ sealer'.token = sealer.token
    BY <1>1, <1>5, AppTypes DEF SealerOK
  <1>7. /\ request' \in [Replica -> PreviewType] /\ RequestOK' /\ TokensOK' /\ WaitingOK'
        /\ SameAccountOK' /\ SuspendedOK' /\ AccountFits' /\ GoneHasNone'
    BY <1>1, <1>6, AppKept
  <1>8. ConnectionTypeOK'
    BY <1>1, <1>3, <1>4, <1>6, <1>7, AppTypes, AppTyped, Zenon
  <1>9. SealerOK'
    BY <1>1, <1>5 DEF SealerOK, IssuedTokens
  <1>10. ResealedOK'
    BY <1>1, <1>3, <1>5 DEF AppConnectionInv, ResealedOK
  <1>11. CanRefresh'
    BY <1>1, <1>2, <1>4 DEF AppConnectionInv, CanRefresh, Connected
  <1> QED
    BY <1>7, <1>8, <1>9, <1>10, <1>11 DEF AppConnectionInv

LEMMA AppLists ==
    ASSUME AppConnectionInv, ListOff
    PROVE  AppConnectionInv'
  <1> DEFINE k == sealer.of
             token == IF connection[k].key = "old" THEN connection[k] ELSE NoToken
             some == \E r \in Replica : sealsWith[r] = "old"
  <1>1. /\ ConnectionTypeOK /\ RequestOK /\ SealerOK /\ TokensOK /\ sealer.does = "list"
        /\ UNCHANGED <<rotates, isFor, spent, taken, connection, request, sealsWith, member,
                       straddled, late, losses>>
    BY DEF AppConnectionInv, ListOff, provider
  <1>2. /\ k \in {"access", "refresh"} /\ connection[k] \in TokenType
        /\ sealer \in SealerType /\ connection \in RowType
    BY <1>1, AppTypes DEF SealerType, RowType
  <1>3. /\ token \in TokenType
        /\ token = NoToken \/ (token = connection[k] /\ connection[k].key = "old")
        /\ connection[k].key = "old" => token = connection[k]
    BY <1>2, AppNothing
  <1>4. sealer' = [sealer EXCEPT !.does = "write", !.token = token]
    BY DEF ListOff
  <1> HIDE DEF token
  <1>5. /\ sealer' \in SealerType /\ sealer'.does = "write" /\ sealer'.of = k
        /\ sealer'.token = token /\ sealer'.clean = sealer.clean
    BY <1>2, <1>3, <1>4 DEF SealerType
  <1>6. some \in BOOLEAN
    BY Zenon
  <1>7. mixed' = ((k = "refresh" /\ mixed) \/ some) /\ everMixed' = (everMixed \/ mixed')
    BY DEF ListOff
  <1>8. /\ some => mixed' = TRUE
        /\ mixed' = FALSE => ~some /\ (k = "refresh" => mixed = FALSE)
        /\ mixed' \in BOOLEAN /\ everMixed' \in BOOLEAN
        /\ mixed' = TRUE => everMixed' = TRUE
        /\ everMixed' = FALSE => everMixed = FALSE
    <2>1. mixed \in BOOLEAN /\ everMixed \in BOOLEAN
      BY <1>1, AppTypes
    <2> HIDE DEF some
    <2> QED
      BY <1>6, <1>7, <2>1
  <1>9. ConnectionTypeOK'
    BY <1>1, <1>5, <1>8, AppTypes, AppTyped, Zenon
  <1>10. connection[k].key = "old" =>
             Connected /\ connection[k].n \in IssuedTokens /\ connection[k] # NoToken
    <2>1. ~Connected => connection[k].key = "none"
      BY <1>2, AppNothing DEF Connected
    <2> QED
      BY <1>1, <1>2, <2>1, AppNothing DEF TokensOK
  <1>11. SealerOK'
    BY <1>1, <1>3, <1>5, <1>10 DEF SealerOK, IssuedTokens
  <1>12. RequestOK' /\ TokensOK' /\ SuspendedOK' /\ AccountFits' /\ GoneHasNone'
    BY <1>1 DEF AppConnectionInv, RequestOK, TokensOK, SuspendedOK, AccountFits,
       GoneHasNone,
                IssuedTokens, Connected, Completing
  <1>13. token.n \in {0, connection.access.n, connection.refresh.n}
    BY <1>2, <1>3, AppNothing
  <1>14. WaitingOK'
    BY <1>1, <1>5, <1>13 DEF AppConnectionInv, WaitingOK
  <1>15. SameAccountOK'
    <2>1. Connected /\ ~straddled /\ token # NoToken => isFor[token.n] = connection.account
      BY <1>2, <1>3 DEF AppConnectionInv, AccountFits
    <2> QED
      BY <1>1, <1>5, <2>1 DEF AppConnectionInv, SameAccountOK, Connected
  <1>16. ResealedOK'
    <2>1. ~mixed' => \A r \in Replica : sealsWith[r] = "new"
      BY <1>1, <1>8, AppTypes
    <2>2. mixed' => everMixed'
      BY <1>8
    <2>3. ~mixed' /\ k = "refresh" => ~mixed
      BY <1>8
    <2> QED
      BY <1>1, <1>3, <1>5, <2>1, <2>2, <2>3 DEF AppConnectionInv, ResealedOK
  <1>17. CanRefresh'
    BY <1>1, <1>8 DEF AppConnectionInv, CanRefresh, Connected
  <1> QED
    BY <1>9, <1>11, <1>12, <1>14, <1>15, <1>16, <1>17 DEF AppConnectionInv

LEMMA AppReseals ==
    ASSUME AppConnectionInv, WriteResealed
    PROVE  AppConnectionInv'
  <1> DEFINE k == sealer.of
             t == [sealer.token EXCEPT !.key = "new"]
  <1>1. /\ ConnectionTypeOK /\ RequestOK /\ SealerOK /\ TokensOK /\ sealer.does = "write"
        /\ UNCHANGED <<rotates, isFor, spent, taken, request, sealsWith, member, mixed,
                       everMixed, straddled, late, losses>>
    BY DEF AppConnectionInv, WriteResealed, provider
  <1>2. PICK fails \in BOOLEAN :
            /\ connection' = IF StillOff /\ ~fails
                             THEN [connection EXCEPT ![k] = t] ELSE connection
            /\ sealer' = [Sealing EXCEPT !.clean = sealer.clean /\ ~fails, !.of = "refresh",
                                         !.does = IF k = "access" THEN "list" ELSE "done"]
    BY DEF WriteResealed
  <1>3. /\ k \in {"access", "refresh"} /\ sealer \in SealerType /\ connection \in RowType
        /\ sealer.token \in TokenType /\ sealer.clean \in BOOLEAN
    BY <1>1, AppTypes DEF SealerType
  <1>4. t \in TokenType /\ t.n = sealer.token.n /\ t.key = "new"
    BY <1>3 DEF TokenType
  <1> HIDE DEF t
  <1>5. /\ sealer' \in SealerType /\ sealer'.token = NoToken /\ sealer'.of = "refresh"
        /\ sealer'.does = IF k = "access" THEN "list" ELSE "done"
        /\ sealer'.clean => sealer.clean /\ ~fails
    <2>1. (sealer.clean /\ ~fails) \in BOOLEAN
      BY Zenon
    <2> QED
      BY <1>2, <2>1, AppNothing DEF SealerType
  <1>6. /\ RequestOK' /\ SuspendedOK'
        /\ SealerOK'
    BY <1>1, <1>3, <1>5 DEF AppConnectionInv, RequestOK, SuspendedOK, SealerOK,
       IssuedTokens,
                            Completing
  <1>7. CASE StillOff /\ ~fails
    <2>1. /\ sealer.token # NoToken /\ connection[k].key = "old" /\ sealer.token.key = "old"
          /\ sealer.token.n \in IssuedTokens /\ Connected
      <3>1. sealer.token # NoToken /\ connection[k].key = "old" /\ sealer.token.key = "old"
            /\ sealer.token.n \in IssuedTokens
        BY <1>1, <1>7 DEF StillOff, SealerOK
      <3> QED
        BY <1>3, <3>1, AppNothing DEF Connected
    <2>2. /\ connection' \in RowType /\ connection'[k] = t
          /\ connection'.account = connection.account
          /\ k = "access" => connection'.access = t /\ connection'.refresh = connection.refresh
          /\ k = "refresh" => connection'.refresh = t /\ connection'.access = connection.access
          /\ \A j \in {"access", "refresh"} : j # k => connection'[j] = connection[j]
      BY <1>2, <1>3, <1>4, <1>7 DEF RowType
    <2>3. ConnectionTypeOK'
      BY <1>1, <1>5, <2>2, AppTypes, AppTyped, Zenon
    <2>4. TokensOK'
      <3>1. \A j \in {"access", "refresh"} : /\ connection'[j].n \in IssuedTokens
                                             /\ connection'[j].key \in {"old", "new"}
        BY <1>1, <1>4, <2>1, <2>2 DEF TokensOK
      <3> QED
        BY <1>1, <3>1 DEF TokensOK, IssuedTokens
    <2>5. WaitingOK'
      BY <1>1, <1>3, <1>4, <1>5, <2>2, AppNothing DEF AppConnectionInv, WaitingOK, RequestOK
    <2>6. SameAccountOK'
      BY <1>1, <1>5, <2>1, <2>2 DEF AppConnectionInv, SameAccountOK
    <2>7. AccountFits'
      BY <1>1, <1>3, <1>4, <2>1, <2>2 DEF AppConnectionInv, AccountFits, SameAccountOK
    <2>8. ResealedOK'
      BY <1>1, <1>3, <1>4, <1>5, <2>2 DEF AppConnectionInv, ResealedOK
    <2>9. GoneHasNone'
      BY <1>1, <2>1 DEF AppConnectionInv, GoneHasNone
    <2>10. CanRefresh'
      <3>1. ~everMixed => connection[k] = sealer.token
        BY <1>1, <2>1 DEF AppConnectionInv, ResealedOK
      <3>2. ~everMixed => connection'.refresh.n = connection.refresh.n
        BY <1>3, <1>4, <2>2, <3>1
      <3>3. connection'.refresh # NoToken
        BY <1>1, <1>3, <1>4, <2>1, <2>2, AppNothing DEF TokensOK
      <3> QED
        BY <1>1, <2>1, <3>2, <3>3 DEF AppConnectionInv, CanRefresh
    <2> QED
      BY <1>6, <2>3, <2>4, <2>5, <2>6, <2>7, <2>8, <2>9, <2>10 DEF AppConnectionInv
  <1>8. CASE ~(StillOff /\ ~fails)
    <2>1. connection' = connection
      BY <1>2, <1>8
    <2>2. ConnectionTypeOK'
      BY <1>1, <1>5, <2>1, AppTypes, AppTyped, Zenon
    <2>3. TokensOK' /\ AccountFits' /\ GoneHasNone' /\ CanRefresh'
      BY <1>1, <2>1 DEF AppConnectionInv, TokensOK, AccountFits, GoneHasNone, CanRefresh,
                        Connected, IssuedTokens
    <2>4. WaitingOK'
      BY <1>1, <1>5, <2>1, AppNothing DEF AppConnectionInv, WaitingOK
    <2>5. SameAccountOK'
      BY <1>1, <1>5, <2>1 DEF AppConnectionInv, SameAccountOK, Connected
    <2>6. ~mixed /\ sealer'.clean => connection[k].key # "old"
      <3>1. ~mixed /\ sealer'.clean /\ connection[k].key = "old" =>
                connection[k] = sealer.token /\ ~StillOff
        BY <1>1, <1>5, <1>8 DEF AppConnectionInv, ResealedOK
      <3> QED
        BY <3>1, AppNothing DEF StillOff
    <2>7. ResealedOK'
      BY <1>1, <1>3, <1>5, <2>1, <2>6 DEF AppConnectionInv, ResealedOK
    <2> QED
      BY <1>6, <2>2, <2>3, <2>4, <2>5, <2>7 DEF AppConnectionInv
  <1> QED
    BY <1>7, <1>8

LEMMA AppStep == AppConnectionInv /\ [AppConnectionNext]_connectionVars => AppConnectionInv'
  <1> SUFFICES ASSUME AppConnectionInv, [AppConnectionNext]_connectionVars
               PROVE  AppConnectionInv'
    OBVIOUS
  <1>1. CASE UNCHANGED connectionVars
    BY <1>1 DEF connectionVars, AppConnectionInv, ConnectionTypeOK, RequestOK, TokensOK,
       SealerOK,
                WaitingOK, SameAccountOK, ResealedOK, SuspendedOK, AccountFits, CanRefresh,
                GoneHasNone, Connected, Completing, IssuedTokens
  <1>2. CASE \E r \in Replica : ReplicaStep(r)
    BY <1>2, AppCompletes, AppUpserts, AppOpens, AppRefreshes, AppStores, AppPromotes
    DEF ReplicaStep
  <1> QED
    BY <1>1, <1>2, AppDeletes, AppLists, AppReseals DEF AppConnectionNext

(* However previews, completions, re-sealing and restarts interleave, a    *)
(* connection has tokens of the account it names, can be refreshed, is     *)
(* sealed with the new key once the run says so, and does not outlive the  *)
(* membership (integrations/service.rs, sealed/reseal.rs).                 *)
THEOREM AuthConnectionSafety == AppConnectionSpec => []ConnectionSafety
  <1>1. AppConnectionInv => ConnectionSafety
    BY DEF AppConnectionInv, ConnectionSafety, SealedWithNew, ResealedOK, SealerOK
  <1> QED
    BY <1>1, AppInit, AppStep, PTL DEF AppConnectionSpec
=============================================================================
