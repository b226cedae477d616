--------------------------- MODULE Channels_proof ---------------------------
(***************************************************************************)
(* Who may hear a channel, what its badge counts and who is shown there,   *)
(* for any channels, sockets, messages, nodes and bounds; and that a       *)
(* browser which resumes from its position misses nothing, for any         *)
(* publishers, events and cap on a replay.                                 *)
(***************************************************************************)
EXTENDS ResumeCursor, Membership, Unread, Presence, FiniteSetTheorems, TLAPS

-----------------------------------------------------------------------------
(* Membership. *)

MembershipSpec == MembershipInit /\ [][MembershipNext]_memberVars

(* What a request is about to add to a workspace the person has left was   *)
(* on its way when they left.                                              *)
AddingOK == Ws \notin rows => \A a \in Request : adding[a] \subseteq straddled

(* A join that was allowed is one of a member, or its removal is on the    *)
(* way, or has passed it.                                                  *)
JoiningOK ==
    \A k \in Socket : joining[k] \subseteq rows \cup notices[k] \cup crossed[k]

(* What the client will not ask for again is on its way or heard, or was   *)
(* taken, whether or not the person is a member now.                       *)
KnownOK ==
    \A k \in Socket : open[k] =>
        known[k] \subseteq subs[k] \cup asked[k] \cup joining[k] \cup cut[k]

MemberInv ==
    /\ MembershipTypeOK /\ InChannelIsInWorkspace /\ HeardOnlyByMembers
    /\ AddingOK /\ JoiningOK /\ KnownOK

LEMMA ChannelMemberInit == MembershipInit => MemberInv
  <1> SUFFICES ASSUME MembershipInit PROVE MemberInv
    OBVIOUS
  <1> USE MembershipAssumption DEF MembershipInit, Nothing, Topic
  <1>1. open \in [Socket -> BOOLEAN]
    BY Zenon
  <1>2. MembershipTypeOK
    BY <1>1 DEF MembershipTypeOK
  <1> QED
    BY <1>2 DEF MemberInv, InChannelIsInWorkspace, HeardOnlyByMembers, AddingOK,
                JoiningOK, KnownOK

(* The API's steps. *)
LEMMA ChannelApiStep ==
    ASSUME MemberInv,
           \/ \E a \in Request : Add(a) \/ \E c \in Channel : CheckAdd(a, c)
           \/ \E c \in Channel : RemoveFromChannel(c)
           \/ JoinWorkspace \/ Detach
    PROVE  MemberInv'
  <1> USE MembershipAssumption DEF MemberInv, clientVars, Topic
  <1>1. ASSUME NEW a \in Request, Add(a) PROVE MemberInv'
    <2>1. MembershipTypeOK'
      BY <1>1 DEF MembershipTypeOK, Add
    <2> QED
      BY <1>1, <2>1 DEF MembershipTypeOK, Add, InChannelIsInWorkspace,
         HeardOnlyByMembers, AddingOK, JoiningOK, KnownOK
  <1>2. ASSUME NEW a \in Request, NEW c \in Channel, CheckAdd(a, c) PROVE MemberInv'
    <2>1. MembershipTypeOK'
      BY <1>2 DEF MembershipTypeOK, CheckAdd
    <2> QED
      BY <1>2, <2>1 DEF MembershipTypeOK, CheckAdd, MayBeAdded,
         InChannelIsInWorkspace, HeardOnlyByMembers, AddingOK, JoiningOK, KnownOK
  <1>3. ASSUME NEW c \in Channel, RemoveFromChannel(c) PROVE MemberInv'
    <2>1. MembershipTypeOK'
      BY <1>3 DEF MembershipTypeOK, RemoveFromChannel
    <2> QED
      BY <1>3, <2>1 DEF MembershipTypeOK, RemoveFromChannel,
         InChannelIsInWorkspace, HeardOnlyByMembers, AddingOK, JoiningOK, KnownOK
  <1>4. ASSUME JoinWorkspace PROVE MemberInv'
    <2>1. MembershipTypeOK'
      BY <1>4 DEF MembershipTypeOK, JoinWorkspace, SettledIn
    <2> QED
      BY <1>4, <2>1 DEF MembershipTypeOK, JoinWorkspace, SettledIn,
         InChannelIsInWorkspace, HeardOnlyByMembers, AddingOK, JoiningOK, KnownOK
  <1>5. ASSUME Detach PROVE MemberInv'
    <2>1. MembershipTypeOK'
      BY <1>5 DEF MembershipTypeOK, Detach, LeftBehind, Told
    <2> QED
      BY <1>5, <2>1 DEF MembershipTypeOK, Detach, LeftBehind, Told,
         InChannelIsInWorkspace, HeardOnlyByMembers, AddingOK, JoiningOK, KnownOK
  <1> QED
    BY <1>1, <1>2, <1>3, <1>4, <1>5

(* The steps of a client and of its gateway. *)
LEMMA ChannelSocketStep ==
    ASSUME MemberInv, NEW k \in Socket,
           \/ Close(k) \/ Reopen(k) \/ CheckJoin(k) \/ FinishJoin(k)
           \/ \E t \in Topic : Ask(k, t)
           \/ \E c \in Channel : Rejoin(k, c) \/ LeaveChannel(k, c)
           \/ \E t \in Topic, again \in BOOLEAN : HandleRemoval(k, t, again)
    PROVE  MemberInv'
  <1> USE MembershipAssumption DEF MemberInv, apiVars, clientVars, Topic
  <1>1. ASSUME Close(k) PROVE MemberInv'
    <2>1. MembershipTypeOK'
      BY <1>1 DEF MembershipTypeOK, Close
    <2> QED
      BY <1>1, <2>1 DEF MembershipTypeOK, Close, InChannelIsInWorkspace,
         HeardOnlyByMembers, AddingOK, JoiningOK, KnownOK
  <1>2. ASSUME Reopen(k) PROVE MemberInv'
    <2>1. MembershipTypeOK'
      BY <1>2 DEF MembershipTypeOK, Reopen, AskedOnOpen
    <2> QED
      BY <1>2, <2>1 DEF MembershipTypeOK, Reopen, AskedOnOpen,
         InChannelIsInWorkspace, HeardOnlyByMembers, AddingOK, JoiningOK, KnownOK
  <1>3. ASSUME CheckJoin(k) PROVE MemberInv'
    <2>1. MembershipTypeOK'
      BY <1>3 DEF MembershipTypeOK, CheckJoin
    <2> QED
      BY <1>3, <2>1 DEF MembershipTypeOK, CheckJoin,
         InChannelIsInWorkspace, HeardOnlyByMembers, AddingOK, JoiningOK, KnownOK
  <1>4. ASSUME FinishJoin(k) PROVE MemberInv'
    <2>1. MembershipTypeOK'
      BY <1>4 DEF MembershipTypeOK, FinishJoin
    <2> QED
      BY <1>4, <2>1 DEF MembershipTypeOK, FinishJoin,
         InChannelIsInWorkspace, HeardOnlyByMembers, AddingOK, JoiningOK, KnownOK
  <1>5. ASSUME NEW t \in Topic, Ask(k, t) PROVE MemberInv'
    <2>1. MembershipTypeOK'
      BY <1>5 DEF MembershipTypeOK, Ask
    <2> QED
      BY <1>5, <2>1 DEF MembershipTypeOK, Ask,
         InChannelIsInWorkspace, HeardOnlyByMembers, AddingOK, JoiningOK, KnownOK
  <1>6. ASSUME NEW c \in Channel, Rejoin(k, c) PROVE MemberInv'
    <2>1. MembershipTypeOK'
      BY <1>6 DEF MembershipTypeOK, Rejoin
    <2> QED
      BY <1>6, <2>1 DEF MembershipTypeOK, Rejoin,
         InChannelIsInWorkspace, HeardOnlyByMembers, AddingOK, JoiningOK, KnownOK
  <1>7. ASSUME NEW c \in Channel, LeaveChannel(k, c) PROVE MemberInv'
    <2>1. MembershipTypeOK'
      BY <1>7 DEF MembershipTypeOK, LeaveChannel
    <2> QED
      BY <1>7, <2>1 DEF MembershipTypeOK, LeaveChannel,
         InChannelIsInWorkspace, HeardOnlyByMembers, AddingOK, JoiningOK, KnownOK
  <1>8. ASSUME NEW t \in Topic, NEW again \in BOOLEAN, HandleRemoval(k, t, again)
        PROVE  MemberInv'
    <2>1. MembershipTypeOK'
      BY <1>8 DEF MembershipTypeOK, HandleRemoval, Dropped
    <2>2. HeardOnlyByMembers' /\ JoiningOK'
      BY <1>8 DEF MembershipTypeOK, HandleRemoval, Dropped,
         HeardOnlyByMembers, JoiningOK
    <2>3. KnownOK'
      BY <1>8 DEF MembershipTypeOK, HandleRemoval, Dropped, KnownOK
    <2> QED
      BY <1>8, <2>1, <2>2, <2>3 DEF HandleRemoval, InChannelIsInWorkspace, AddingOK
  <1> QED
    BY <1>1, <1>2, <1>3, <1>4, <1>5, <1>6, <1>7, <1>8

LEMMA ChannelMemberStep == MemberInv /\ [MembershipNext]_memberVars => MemberInv'
  <1> SUFFICES ASSUME MemberInv, [MembershipNext]_memberVars PROVE MemberInv'
    OBVIOUS
  <1>1. CASE UNCHANGED memberVars
    BY <1>1 DEF memberVars, MemberInv, MembershipTypeOK, InChannelIsInWorkspace,
       HeardOnlyByMembers, AddingOK, JoiningOK, KnownOK
  <1>2. CASE MembershipNext
    BY <1>2, ChannelApiStep, ChannelSocketStep, Zenon DEF MembershipNext
  <1> QED
    BY <1>1, <1>2

(* Whoever is in a channel is in its workspace but for an addition that    *)
(* straddled the detach, a socket hears what its owner was removed from    *)
(* only until the removal reaches it or has crossed a join, and what a     *)
(* client joined it hears through every reconnection (detach,              *)
(* add_to_channel, leave_channel_for_user, onopen of lib/ws.ts).           *)
THEOREM ChannelMembershipSafety == MembershipSpec => []MembershipSafety
  <1>1. MemberInv => MembershipSafety
    BY DEF MemberInv, MembershipSafety, KnownOK, JoinedIsHeard
  <1> QED
    BY <1>1, ChannelMemberInit, ChannelMemberStep, PTL DEF MembershipSpec

-----------------------------------------------------------------------------
(* Presence. *)

PresenceSpec == PresenceInit /\ [][PresenceNext]_presenceVars

BudgetType == [toggles : Nat, frames : Nat, moves : Nat, faults : Nat]

(* Where a handler or a consumer can be: a consumer settles and tells and  *)
(* no more, and a connection that is gone clears up after itself.          *)
AtStep ==
    /\ \A t \in Runner : pc[t] = "idle" => doing[t] = "sync"
    /\ \A n \in Node : doing[n] = "sync"
    /\ \A c \in Link :
           /\ life[c] = "off" => pc[c] = "idle"
           /\ life[c] = "gone" => pc[c] = "idle" \/ doing[c] = "leave"
           /\ doing[c] = "leave" =>
                  /\ life[c] = "gone" /\ pc[c] \in {"clear", "settle", "tell"}
                  /\ pc[c] # "clear" => saw[c] = "offline"
           /\ pc[c] = "clear" => doing[c] = "leave"

(* Whoever announces a status alone announces the one that is kept. *)
TellOK ==
    mishaps \cap {"overlap", "lost"} = {} =>
        \A t \in Runner : pc[t] = "tell" =>
            /\ status = saw[t]
            /\ \A o \in Runner : pc[o] = "tell" => o = t

(* When the last connection is gone, one of them has yet to clear, or they *)
(* are out of the roster and one has yet to settle, or that is done.       *)
LeavingOK ==
    mishaps \cap {"dropped", "crash", "lost", "raced", "unlisted"} = {} =>
        /\ \A c \in Link : life[c] # "dropped"
        /\ Nobody /\ (\E c \in Link : life[c] = "gone") =>
               \/ \E c \in Link : pc[c] = "clear"
               \/ /\ ~roster
                  /\ \/ status = "offline"
                     \/ \E c \in Link : pc[c] = "settle" /\ doing[c] = "leave"

PresenceInv == PresenceTypeOK /\ AtStep /\ TellOK /\ SettledIsTold /\ LeavingOK

LEMMA ChannelPresenceInit == PresenceInit => PresenceInv
  <1> SUFFICES ASSUME PresenceInit PROVE PresenceInv
    OBVIOUS
  <1> USE PresenceAssumption DEF PresenceInit
  <1>1. /\ belongs \in BOOLEAN /\ roster \in BOOLEAN /\ away \in BOOLEAN
        /\ lists \in [Link -> BOOLEAN] /\ active \in [Link -> BOOLEAN]
    BY Zenon
  <1>2. PresenceTypeOK
    BY <1>1 DEF PresenceTypeOK, Shown
  <1> QED
    BY <1>2 DEF PresenceInv, AtStep, TellOK, SettledIsTold, LeavingOK, Runner

(* Something of the budget is spent. *)
LEMMA ChannelPays ==
    ASSUME left \in BudgetType, NEW what \in {"toggles", "frames", "moves", "faults"},
           Pays(what)
    PROVE  left' \in BudgetType /\ left' # left
  BY DEF BudgetType, Pays

LEMMA ChannelConnect ==
    ASSUME PresenceInv, NEW c \in Link, Connect(c) PROVE PresenceInv'
  <1> USE PresenceAssumption DEF PresenceInv, Running, Runner, people, keys, links,
           Goes, Ends, Connect
  <1>1. PresenceTypeOK'
    BY ChannelPays DEF PresenceTypeOK, Shown, Mishap, BudgetType
  <1>2. AtStep'
    BY DEF AtStep, PresenceTypeOK
  <1>3. TellOK'
    BY DEF TellOK, AtStep, PresenceTypeOK
  <1>4. SettledIsTold'
    BY DEF SettledIsTold, TellOK, AtStep, PresenceTypeOK
  <1>5. LeavingOK'
    BY DEF LeavingOK, AtStep, Nobody, PresenceTypeOK
  <1> QED
    BY <1>1, <1>2, <1>3, <1>4, <1>5

LEMMA ChannelSubscribe ==
    ASSUME PresenceInv, NEW c \in Link, Subscribe(c) PROVE PresenceInv'
  <1> USE PresenceAssumption DEF PresenceInv, Running, Runner, people, keys, links,
           Goes, Ends, Subscribe
  <1>1. PresenceTypeOK'
    BY ChannelPays DEF PresenceTypeOK, BudgetType
  <1>2. AtStep'
    BY DEF AtStep, PresenceTypeOK
  <1>3. TellOK'
    BY DEF TellOK, AtStep, PresenceTypeOK
  <1>4. SettledIsTold'
    BY DEF SettledIsTold, TellOK, AtStep, PresenceTypeOK
  <1>5. LeavingOK'
    BY DEF LeavingOK, AtStep, Nobody, PresenceTypeOK
  <1> QED
    BY <1>1, <1>2, <1>3, <1>4, <1>5

LEMMA ChannelBeat ==
    ASSUME PresenceInv, NEW c \in Link, Beat(c) PROVE PresenceInv'
  <1> USE PresenceAssumption DEF PresenceInv, Running, Runner, people, keys, links,
           Goes, Ends, Beat
  <1>1. PresenceTypeOK'
    BY DEF PresenceTypeOK
  <1>2. AtStep'
    BY DEF AtStep, PresenceTypeOK
  <1>3. TellOK'
    BY DEF TellOK, AtStep, PresenceTypeOK
  <1>4. SettledIsTold'
    BY DEF SettledIsTold, TellOK, AtStep, PresenceTypeOK
  <1>5. LeavingOK'
    BY DEF LeavingOK, AtStep, Nobody, PresenceTypeOK
  <1> QED
    BY <1>1, <1>2, <1>3, <1>4, <1>5

LEMMA ChannelReport ==
    ASSUME PresenceInv, NEW c \in Link, NEW now \in BOOLEAN, Report(c, now)
    PROVE  PresenceInv'
  <1> USE PresenceAssumption DEF PresenceInv, Running, Runner, people, keys, links,
           Goes, Ends, Report
  <1>1. PresenceTypeOK'
    BY ChannelPays DEF PresenceTypeOK, BudgetType
  <1>2. AtStep'
    BY DEF AtStep, PresenceTypeOK
  <1>3. TellOK'
    BY DEF TellOK, AtStep, PresenceTypeOK
  <1>4. SettledIsTold'
    BY DEF SettledIsTold, TellOK, AtStep, PresenceTypeOK
  <1>5. LeavingOK'
    BY DEF LeavingOK, AtStep, Nobody, PresenceTypeOK
  <1> QED
    BY <1>1, <1>2, <1>3, <1>4, <1>5

LEMMA ChannelShow ==
    ASSUME PresenceInv, NEW c \in Link, Show(c) PROVE PresenceInv'
  <1> USE PresenceAssumption DEF PresenceInv, Running, Runner, people, keys, links,
           Goes, Ends, Show, Renews, Marks, AfterShow
  <1>1. PresenceTypeOK'
    BY DEF PresenceTypeOK
  <1>2. AtStep'
    BY DEF AtStep, PresenceTypeOK
  <1>3. TellOK'
    BY DEF TellOK, AtStep, PresenceTypeOK
  <1>4. SettledIsTold'
    BY DEF SettledIsTold, TellOK, AtStep, PresenceTypeOK
  <1>5. LeavingOK'
    BY DEF LeavingOK, AtStep, Nobody, PresenceTypeOK
  <1> QED
    BY <1>1, <1>2, <1>3, <1>4, <1>5

LEMMA ChannelLeave ==
    ASSUME PresenceInv, NEW c \in Link, Leave(c) PROVE PresenceInv'
  <1> USE PresenceAssumption DEF PresenceInv, Running, Runner, people, keys, links,
           Goes, Ends, Leave
  <1>1. PresenceTypeOK'
    BY DEF PresenceTypeOK
  <1>2. AtStep'
    BY DEF AtStep, PresenceTypeOK
  <1>3. TellOK'
    BY DEF TellOK, AtStep, PresenceTypeOK
  <1>4. SettledIsTold'
    BY DEF SettledIsTold, TellOK, AtStep, PresenceTypeOK
  <1>5. LeavingOK'
    BY DEF LeavingOK, AtStep, Nobody, PresenceTypeOK
  <1> QED
    BY <1>1, <1>2, <1>3, <1>4, <1>5

LEMMA ChannelClear ==
    ASSUME PresenceInv, NEW c \in Link, Clear(c) PROVE PresenceInv'
  <1> USE PresenceAssumption DEF PresenceInv, Running, Runner, people, keys, links,
           Goes, Ends, Clear, RosterCleared
  <1>1. roster' \in BOOLEAN
    BY Zenon DEF PresenceTypeOK
  <1>2. left' \in BudgetType
    BY ChannelPays DEF PresenceTypeOK, BudgetType
  <1>3. mishaps' \subseteq Mishap
    BY DEF PresenceTypeOK, Mishap
  <1>4. pc' \in [Runner -> {"idle", "show", "look", "settle", "tell", "clear"}]
    BY DEF PresenceTypeOK
  <1>5. doing' \in [Runner -> {"sync", "beat", "connect", "subscribe", "leave"}]
    BY DEF PresenceTypeOK
  <1>6. saw' \in [Runner -> Shown]
    BY DEF PresenceTypeOK, Shown
  <1>7. PresenceTypeOK'
    BY <1>1, <1>2, <1>3, <1>4, <1>5, <1>6 DEF PresenceTypeOK, BudgetType
  <1>8. AtStep'
    BY DEF AtStep, PresenceTypeOK
  <1>9. TellOK'
    BY DEF TellOK, AtStep, PresenceTypeOK
  <1>10. SettledIsTold'
    BY DEF SettledIsTold, TellOK, AtStep, PresenceTypeOK
  <1>11. LeavingOK'
    BY DEF LeavingOK, AtStep, Nobody, PresenceTypeOK
  <1> QED
    BY <1>7, <1>8, <1>9, <1>10, <1>11

LEMMA ChannelLook ==
    ASSUME PresenceInv, NEW t \in Runner, Look(t) PROVE PresenceInv'
  <1> USE PresenceAssumption DEF PresenceInv, Running, Runner, people, keys, links,
           Goes, Ends, Look, WorkedOut
  <1>1. PresenceTypeOK'
    BY DEF PresenceTypeOK, Shown, Mishap
  <1>2. AtStep'
    BY DEF AtStep, PresenceTypeOK
  <1>3. TellOK'
    BY DEF TellOK, AtStep, PresenceTypeOK
  <1>4. SettledIsTold'
    BY DEF SettledIsTold, TellOK, AtStep, PresenceTypeOK
  <1>5. LeavingOK'
    BY DEF LeavingOK, AtStep, Nobody, PresenceTypeOK
  <1> QED
    BY <1>1, <1>2, <1>3, <1>4, <1>5

LEMMA ChannelSettle ==
    ASSUME PresenceInv, NEW t \in Runner, Settle(t) PROVE PresenceInv'
  <1> USE PresenceAssumption DEF PresenceInv, Running, Runner, people, keys, links,
           Goes, Ends, Settle, Changes, Others, HasLocal
  <1>1. PresenceTypeOK'
    BY ChannelPays DEF PresenceTypeOK, Shown, Mishap, BudgetType
  <1>2. AtStep'
    BY DEF AtStep, PresenceTypeOK
  <1>3. left \in BudgetType
    BY DEF PresenceTypeOK, BudgetType
  <1>4. ASSUME "lost" \notin mishaps' PROVE left' = left /\ status' = saw[t]
    BY <1>3, <1>4, ChannelPays
  <1>5. ASSUME "overlap" \notin mishaps', NEW o \in Runner, o # t PROVE pc[o] # "tell"
    BY <1>5
  <1>6. pc \in [Runner -> {"idle", "show", "look", "settle", "tell", "clear"}]
    BY DEF PresenceTypeOK
  <1>7. TellOK'
    <2> SUFFICES ASSUME "overlap" \notin mishaps', "lost" \notin mishaps',
                        NEW u \in Runner, pc'[u] = "tell"
                 PROVE  /\ status' = saw'[u]
                        /\ \A o \in Runner : pc'[o] = "tell" => o = u
      BY DEF TellOK
    <2>1. u = t /\ saw' = saw
      BY <1>5, <1>6
    <2> QED
      BY <1>4, <1>5, <1>6, <2>1
  <1>8. SettledIsTold'
    BY DEF SettledIsTold, TellOK, AtStep, PresenceTypeOK
  <1>9. LeavingOK'
    <2> SUFFICES ASSUME mishaps' \cap {"dropped", "crash", "lost", "raced", "unlisted"} = {}
                 PROVE  /\ \A c \in Link : life[c] # "dropped"
                        /\ Nobody /\ (\E c \in Link : life[c] = "gone") =>
                               \/ \E c \in Link : pc'[c] = "clear"
                               \/ ~roster /\ status' = "offline"
      BY DEF LeavingOK, Nobody
    <2>1. mishaps \cap {"dropped", "crash", "lost", "raced", "unlisted"} = {}
      OBVIOUS
    <2>2. ASSUME Nobody, \E c \in Link : life[c] = "gone", ~\E c \in Link : pc'[c] = "clear"
          PROVE  ~roster /\ status' = "offline"
      <3>1. t \in Link
        BY <2>2 DEF Nobody
      <3>2. saw[t] = "offline"
        BY <2>2, <3>1 DEF AtStep, Nobody, PresenceTypeOK
      <3>3. ~\E c \in Link : pc[c] = "clear"
        BY <1>6, <2>2
      <3> QED
        BY <1>4, <2>1, <2>2, <3>2, <3>3 DEF LeavingOK
    <2> QED
      BY <2>1, <2>2 DEF LeavingOK
  <1> QED
    BY <1>1, <1>2, <1>7, <1>8, <1>9

LEMMA ChannelTell ==
    ASSUME PresenceInv, NEW t \in Runner, Tell(t) PROVE PresenceInv'
  <1> USE PresenceAssumption DEF PresenceInv, Running, Runner, people, keys, links,
           Goes, Ends, Tell
  <1>1. PresenceTypeOK'
    BY ChannelPays DEF PresenceTypeOK, Shown, Mishap, BudgetType
  <1>2. AtStep'
    BY DEF AtStep, PresenceTypeOK
  <1>3. TellOK'
    BY DEF TellOK, AtStep, PresenceTypeOK
  <1>4. SettledIsTold'
    <2> SUFFICES ASSUME belongs', mishaps' \cap {"overlap", "lost", "new"} = {}
                 PROVE  heard' = status'
      BY DEF SettledIsTold
    <2>1. mishaps' = mishaps /\ heard' = saw[t] /\ status' = status
      OBVIOUS
    <2> QED
      BY <2>1 DEF TellOK
  <1>5. LeavingOK'
    BY DEF LeavingOK, AtStep, Nobody, PresenceTypeOK
  <1> QED
    BY <1>1, <1>2, <1>3, <1>4, <1>5

LEMMA ChannelRecompute ==
    ASSUME PresenceInv, NEW n \in Node, Recompute(n) PROVE PresenceInv'
  <1> USE PresenceAssumption DEF PresenceInv, Running, Runner, people, keys, links,
           Goes, Ends, Recompute
  <1>1. PresenceTypeOK'
    BY DEF PresenceTypeOK
  <1>2. AtStep'
    BY DEF AtStep, PresenceTypeOK
  <1>3. TellOK'
    BY DEF TellOK, AtStep, PresenceTypeOK
  <1>4. SettledIsTold'
    BY DEF SettledIsTold, TellOK, AtStep, PresenceTypeOK
  <1>5. LeavingOK'
    BY DEF LeavingOK, AtStep, Nobody, PresenceTypeOK
  <1> QED
    BY <1>1, <1>2, <1>3, <1>4, <1>5

LEMMA ChannelLeaveWorkspace ==
    ASSUME PresenceInv, NEW n \in Node, LeaveWorkspace(n) PROVE PresenceInv'
  <1> USE PresenceAssumption DEF PresenceInv, Running, Runner, people, keys, links,
           Goes, Ends, LeaveWorkspace
  <1>1. PresenceTypeOK'
    BY DEF PresenceTypeOK
  <1>2. AtStep'
    BY DEF AtStep, PresenceTypeOK
  <1>3. TellOK'
    BY DEF TellOK, AtStep, PresenceTypeOK
  <1>4. SettledIsTold'
    BY DEF SettledIsTold, TellOK, AtStep, PresenceTypeOK
  <1>5. LeavingOK'
    BY DEF LeavingOK, AtStep, Nobody, PresenceTypeOK
  <1> QED
    BY <1>1, <1>2, <1>3, <1>4, <1>5

LEMMA ChannelDropLink ==
    ASSUME PresenceInv, NEW c \in Link, DropLink(c) PROVE PresenceInv'
  <1> USE PresenceAssumption DEF PresenceInv, Running, Runner, people, keys, links,
           Goes, Ends, DropLink
  <1>1. PresenceTypeOK'
    BY ChannelPays DEF PresenceTypeOK, Shown, Mishap, BudgetType
  <1>2. AtStep'
    BY DEF AtStep, PresenceTypeOK
  <1>3. TellOK'
    BY DEF TellOK, AtStep, PresenceTypeOK
  <1>4. SettledIsTold'
    BY DEF SettledIsTold, TellOK, AtStep, PresenceTypeOK
  <1>5. LeavingOK'
    BY DEF LeavingOK, AtStep, Nobody, PresenceTypeOK
  <1> QED
    BY <1>1, <1>2, <1>3, <1>4, <1>5

LEMMA ChannelCrash ==
    ASSUME PresenceInv, NEW n \in Node, Crash(n) PROVE PresenceInv'
  <1> USE PresenceAssumption DEF PresenceInv, Running, Runner, people, keys, links,
           Goes, Ends, Crash
  <1>1. PresenceTypeOK'
    BY ChannelPays DEF PresenceTypeOK, Shown, Mishap, BudgetType
  <1>2. AtStep'
    BY DEF AtStep, PresenceTypeOK
  <1>3. TellOK'
    BY DEF TellOK, AtStep, PresenceTypeOK
  <1>4. SettledIsTold'
    BY DEF SettledIsTold, TellOK, AtStep, PresenceTypeOK
  <1>5. LeavingOK'
    BY DEF LeavingOK, AtStep, Nobody, PresenceTypeOK
  <1> QED
    BY <1>1, <1>2, <1>3, <1>4, <1>5

LEMMA ChannelToggleAway ==
    ASSUME PresenceInv, ToggleAway PROVE PresenceInv'
  <1> USE PresenceAssumption DEF PresenceInv, Running, Runner, people, keys, links,
           Goes, Ends, ToggleAway, Announced
  <1>1. PresenceTypeOK'
    BY ChannelPays DEF PresenceTypeOK, BudgetType
  <1>2. AtStep'
    BY DEF AtStep, PresenceTypeOK
  <1>3. TellOK'
    BY DEF TellOK, AtStep, PresenceTypeOK
  <1>4. SettledIsTold'
    BY DEF SettledIsTold, TellOK, AtStep, PresenceTypeOK
  <1>5. LeavingOK'
    BY DEF LeavingOK, AtStep, Nobody, PresenceTypeOK
  <1> QED
    BY <1>1, <1>2, <1>3, <1>4, <1>5

LEMMA ChannelJoinMember ==
    ASSUME PresenceInv, JoinMember PROVE PresenceInv'
  <1> USE PresenceAssumption DEF PresenceInv, Running, Runner, people, keys, links,
           Goes, Ends, JoinMember
  <1>1. PresenceTypeOK'
    BY ChannelPays DEF PresenceTypeOK, Shown, Mishap, BudgetType
  <1>2. AtStep'
    BY DEF AtStep, PresenceTypeOK
  <1>3. TellOK'
    BY DEF TellOK, AtStep, PresenceTypeOK
  <1>4. SettledIsTold'
    BY DEF SettledIsTold, TellOK, AtStep, PresenceTypeOK
  <1>5. LeavingOK'
    BY DEF LeavingOK, AtStep, Nobody, PresenceTypeOK
  <1> QED
    BY <1>1, <1>2, <1>3, <1>4, <1>5

LEMMA ChannelRemoveMember ==
    ASSUME PresenceInv, RemoveMember PROVE PresenceInv'
  <1> USE PresenceAssumption DEF PresenceInv, Running, Runner, people, keys, links,
           Goes, Ends, RemoveMember, Announced
  <1>1. PresenceTypeOK'
    BY ChannelPays DEF PresenceTypeOK, BudgetType
  <1>2. AtStep'
    BY DEF AtStep, PresenceTypeOK
  <1>3. TellOK'
    BY DEF TellOK, AtStep, PresenceTypeOK
  <1>4. SettledIsTold'
    BY DEF SettledIsTold, TellOK, AtStep, PresenceTypeOK
  <1>5. LeavingOK'
    BY DEF LeavingOK, AtStep, Nobody, PresenceTypeOK
  <1> QED
    BY <1>1, <1>2, <1>3, <1>4, <1>5

LEMMA ChannelGrowIdle ==
    ASSUME PresenceInv, GrowIdle PROVE PresenceInv'
  <1> USE PresenceAssumption DEF PresenceInv, Running, Runner, people, keys, links,
           Goes, Ends, GrowIdle
  <1>1. PresenceTypeOK'
    BY DEF PresenceTypeOK
  <1>2. AtStep'
    BY DEF AtStep, PresenceTypeOK
  <1>3. TellOK'
    BY DEF TellOK, AtStep, PresenceTypeOK
  <1>4. SettledIsTold'
    BY DEF SettledIsTold, TellOK, AtStep, PresenceTypeOK
  <1>5. LeavingOK'
    BY DEF LeavingOK, AtStep, Nobody, PresenceTypeOK
  <1> QED
    BY <1>1, <1>2, <1>3, <1>4, <1>5

LEMMA ChannelExpire ==
    ASSUME PresenceInv, Expire PROVE PresenceInv'
  <1> USE PresenceAssumption DEF PresenceInv, Running, Runner, people, keys, links,
           Goes, Ends, Expire
  <1>1. PresenceTypeOK'
    BY DEF PresenceTypeOK
  <1>2. AtStep'
    BY DEF AtStep, PresenceTypeOK
  <1>3. TellOK'
    BY DEF TellOK, AtStep, PresenceTypeOK
  <1>4. SettledIsTold'
    BY DEF SettledIsTold, TellOK, AtStep, PresenceTypeOK
  <1>5. LeavingOK'
    BY DEF LeavingOK, AtStep, Nobody, PresenceTypeOK
  <1> QED
    BY <1>1, <1>2, <1>3, <1>4, <1>5

LEMMA ChannelPresenceStep == PresenceInv /\ [PresenceNext]_presenceVars => PresenceInv'
  <1> SUFFICES ASSUME PresenceInv, [PresenceNext]_presenceVars PROVE PresenceInv'
    OBVIOUS
  <1>1. CASE UNCHANGED presenceVars
    BY <1>1 DEF presenceVars, PresenceInv, PresenceTypeOK, AtStep, TellOK, SettledIsTold,
       LeavingOK, Nobody, Running
  <1>2. CASE \E c \in Link :
               \/ Connect(c) \/ Subscribe(c) \/ Beat(c) \/ Leave(c) \/ DropLink(c)
               \/ LinkStep(c) \/ \E now \in BOOLEAN : Report(c, now)
    <2>1. Link \subseteq Runner
      BY DEF Runner
    <2> QED
      BY <1>2, <2>1, ChannelConnect, ChannelSubscribe, ChannelBeat, ChannelLeave,
         ChannelDropLink, ChannelShow, ChannelClear, ChannelLook, ChannelSettle,
         ChannelTell, ChannelReport DEF LinkStep, RunnerStep
  <1>3. CASE \E n \in Node : ConsumerStep(n) \/ Crash(n)
    <2>1. Node \subseteq Runner
      BY DEF Runner
    <2> QED
      BY <1>3, <2>1, ChannelRecompute, ChannelLeaveWorkspace, ChannelLook, ChannelSettle,
         ChannelTell, ChannelCrash DEF ConsumerStep, RunnerStep
  <1>4. CASE ToggleAway \/ JoinMember \/ RemoveMember \/ GrowIdle \/ Expire
    BY <1>4, ChannelToggleAway, ChannelJoinMember, ChannelRemoveMember, ChannelGrowIdle,
       ChannelExpire
  <1> QED
    BY <1>1, <1>2, <1>3, <1>4, Zenon DEF PresenceNext

(* The others of a workspace were told last the status that is kept, and a *)
(* person whose last connection was cleaned up is offline and out of the   *)
(* roster, with the exceptions the properties name (presence_settle,       *)
(* publish_presence, cleanup, presence_clear).                             *)
THEOREM ChannelPresenceSafety == PresenceSpec => []PresenceSafety
  <1>1. PresenceInv => PresenceSafety
    <2> SUFFICES ASSUME PresenceInv, Nobody, \E c \in Link : life[c] = "gone",
                        \A t \in Runner : pc[t] = "idle"
                 PROVE  \/ ~roster /\ status = "offline"
                        \/ mishaps \cap {"dropped", "crash", "lost", "raced", "unlisted"} # {}
      BY DEF PresenceInv, PresenceSafety, GoneIsOffline
    <2>1. \A c \in Link : pc[c] = "idle"
      BY DEF Runner
    <2> QED
      BY <2>1 DEF PresenceInv, LeavingOK
  <1> QED
    BY <1>1, ChannelPresenceInit, ChannelPresenceStep, PTL DEF PresenceSpec

-----------------------------------------------------------------------------
(* Unread. *)

UnreadSpec == UnreadInit /\ [][UnreadNext]_unreadVars

SpareType == [posts : Nat, marks : Nat, deletes : Nat, faults : Nat]
MessageType ==
    [kind : Kind, created : Instant, is : {"none", "inserted", "undone", "live", "gone"}]
DeletingType == [m : Message \cup {None}, at : {"idle", "found", "dropped"}]

(* The messages a count since t is of, the replies that are there, and the *)
(* messages that were ever counted.                                        *)
Since(t) == {n \in Counted : msg[n].created > t}
Replied == {n \in Message : msg[n].kind = "reply" /\ msg[n].is = "live"}
Posted == {n \in Message : msg[n].is \in {"live", "gone"} /\ msg[n].kind = "channel"}

(* A message is dated when it is inserted, by a clock that only goes on. *)
DatesOK ==
    /\ \A m \in Message : msg[m].created <= clock
    /\ \A m \in Message : msg[m].is # "none" => msg[m].created > 0
    /\ row.readAt <= clock /\ (marking # None => marking <= clock)
    /\ unmarking # None => unmarking.readAt <= clock

(* The row is held by a post that counts. *)
HolderOK ==
    holder # None => msg[holder].is = "inserted" /\ msg[holder].kind = "channel"

DeletingOK ==
    \A d \in Deleter : deleting[d].at # "idle" =>
        deleting[d].m \in Message /\ msg[deleting[d].m].is \in {"live", "gone"}

(* However wrong a count is, it is one of messages that were there. *)
BoundOK ==
    /\ row.unread <= Cardinality(Posted)
    /\ unmarking # None => unmarking.unread <= Cardinality(Posted)
    /\ recount # None => recount <= Cardinality(Posted)

(* As long as nothing has overlapped there is one operation at a time, and *)
(* what it is about to write agrees with the messages.                     *)
Resting == \A d \in Deleter : deleting[d].at = "idle"

InsertAlone ==
    \A m \in Message : msg[m].is = "inserted" =>
        /\ \A n \in Message : msg[n].is = "inserted" => n = m
        /\ marking = None /\ unmarking = None /\ Resting
        /\ row.readAt < msg[m].created

MarkAlone ==
    /\ marking # None => unmarking = None /\ Resting /\ marking = clock
    /\ unmarking # None =>
           Resting /\ unmarking.unread = Cardinality(Since(unmarking.readAt))

DeleteAlone ==
    \A d \in Deleter : deleting[d].at # "idle" =>
        /\ \A e \in Deleter : deleting[e].at # "idle" => e = d
        /\ msg[deleting[d].m].is = "live"

(* A deletion takes one off before it takes the message. *)
CountAlone ==
    /\ (\A d \in Deleter : deleting[d].at # "dropped") =>
           row.unread = Cardinality(Since(row.readAt))
    /\ \A d \in Deleter : deleting[d].at = "dropped" =>
           row.unread = Cardinality(Since(row.readAt) \ {deleting[d].m})

AloneOK ==
    ~overlapped =>
        recount = None /\ InsertAlone /\ MarkAlone /\ DeleteAlone /\ CountAlone

UnreadInv ==
    /\ UnreadTypeOK /\ DatesOK /\ HolderOK /\ DeletingOK /\ BoundOK
    /\ RepliesAreCounted /\ AloneOK

(* The sets that are counted are finite, and so the counts are numbers. *)
LEMMA ChannelCounts ==
    ASSUME NEW t
    PROVE  /\ IsFiniteSet(Since(t)) /\ IsFiniteSet(Replied) /\ IsFiniteSet(Posted)
           /\ Cardinality(Since(t)) \in Nat /\ Cardinality(Replied) \in Nat
           /\ Cardinality(Posted) \in Nat
           /\ Since(t) \subseteq Posted
           /\ Cardinality(Since(t)) <= Cardinality(Posted)
           /\ Cardinality(Posted) <= Cardinality(Message)
           /\ Cardinality(Replied) <= Cardinality(Message)
           /\ Cardinality(Message) \in Nat
  <1>1. /\ Since(t) \subseteq Posted /\ Since(t) \subseteq Message
        /\ Posted \subseteq Message /\ Replied \subseteq Message
    BY DEF Since, Posted, Replied, Counted
  <1>2. IsFiniteSet(Message) /\ Cardinality(Message) \in Nat
    BY UnreadAssumption, FS_CardinalityType
  <1>3. IsFiniteSet(Posted) /\ Cardinality(Posted) <= Cardinality(Message)
    BY <1>1, <1>2, FS_Subset
  <1>4. IsFiniteSet(Replied) /\ Cardinality(Replied) <= Cardinality(Message)
    BY <1>1, <1>2, FS_Subset
  <1>5. IsFiniteSet(Since(t)) /\ Cardinality(Since(t)) <= Cardinality(Posted)
    BY <1>1, <1>3, FS_Subset
  <1> QED
    BY <1>1, <1>2, <1>3, <1>4, <1>5, FS_CardinalityType

LEMMA ChannelUnreadInit == UnreadInit => UnreadInv
  <1> SUFFICES ASSUME UnreadInit PROVE UnreadInv
    OBVIOUS
  <1> USE UnreadAssumption DEF UnreadInit
  <1>1. recent \in BOOLEAN /\ swept \in BOOLEAN /\ overlapped \in BOOLEAN
    BY Zenon
  <1>2. \A t : Since(t) = {} /\ Replied = {} /\ Posted = {}
    BY DEF Since, Replied, Posted, Counted
  <1>3. Cardinality({}) = 0
    BY FS_EmptySet
  <1>4. Cardinality(Message) \in Nat
    BY FS_CardinalityType
  <1>5. UnreadTypeOK
    BY <1>1, <1>4 DEF UnreadTypeOK, Instant, Row, Kind, NoDelete
  <1>6. RepliesAreCounted
    BY <1>2, <1>3 DEF RepliesAreCounted, Replied
  <1>7. AloneOK
    BY <1>2, <1>3 DEF AloneOK, InsertAlone, MarkAlone, DeleteAlone, CountAlone, NoDelete
  <1>8. DatesOK /\ HolderOK
    BY DEF DatesOK, HolderOK
  <1>9. DeletingOK
    BY DEF DeletingOK, NoDelete
  <1>10. BoundOK
    <2>1. Cardinality(Posted) = 0 /\ row.unread = 0
      BY <1>2, <1>3
    <2>2. unmarking = None /\ recount = None
      OBVIOUS
    <2> HIDE DEF UnreadInit
    <2> QED
      BY <2>1, <2>2 DEF BoundOK
  <1> QED
    BY <1>5, <1>6, <1>7, <1>8, <1>9, <1>10 DEF UnreadInv

(* A message that is not there changes into one that is not there. *)
LEMMA ChannelUncounted ==
    ASSUME NEW m \in Message, \A n \in Message \ {m} : msg'[n] = msg[n],
           msg[m].is \notin {"live", "gone"}, msg'[m].is \notin {"live", "gone"}
    PROVE  Replied' = Replied /\ Posted' = Posted /\ \A t : Since(t)' = Since(t)
  BY DEF Replied, Posted, Since, Counted

(* Nothing changes in the messages. *)
LEMMA ChannelSameMessages ==
    ASSUME msg' = msg
    PROVE  Replied' = Replied /\ Posted' = Posted /\ \A t : Since(t)' = Since(t)
  BY DEF Replied, Posted, Since, Counted

(* A message is committed. *)
LEMMA ChannelCommitted ==
    ASSUME NEW m \in Message, \A n \in Message \ {m} : msg'[n] = msg[n],
           msg[m].is = "inserted", msg'[m].is = "live",
           msg'[m].kind = msg[m].kind, msg'[m].created = msg[m].created
    PROVE  /\ m \notin Replied /\ m \notin Posted
           /\ Replied' = IF msg[m].kind = "reply" THEN Replied \cup {m} ELSE Replied
           /\ Posted' = IF msg[m].kind = "channel" THEN Posted \cup {m} ELSE Posted
           /\ \A t : /\ m \notin Since(t)
                     /\ Since(t)' = IF msg[m].kind = "channel" /\ msg[m].created > t
                                    THEN Since(t) \cup {m} ELSE Since(t)
  BY DEF Replied, Posted, Since, Counted

(* A message is erased, perhaps again. *)
LEMMA ChannelErased ==
    ASSUME NEW m \in Message, \A n \in Message \ {m} : msg'[n] = msg[n],
           msg[m].is \in {"live", "gone"}, msg'[m].is = "gone",
           msg'[m].kind = msg[m].kind
    PROVE  /\ Replied' = Replied \ {m} /\ Posted' = Posted
           /\ \A t : Since(t)' = Since(t) \ {m}
  BY DEF Replied, Posted, Since, Counted

LEMMA ChannelOneLess ==
    ASSUME NEW n \in Nat
    PROVE  Max({n - 1, 0}) = IF n > 0 THEN n - 1 ELSE 0
  <1>1. Max({n - 1, 0}) \in {n - 1, 0} /\ \A y \in {n - 1, 0} : Max({n - 1, 0}) >= y
    <2>1. \E x \in {n - 1, 0} : \A y \in {n - 1, 0} : x >= y
      OBVIOUS
    <2> QED
      BY <2>1 DEF Max
  <1> QED
    BY <1>1

LEMMA ChannelLater ==
    ASSUME NEW a \in Nat, NEW b \in Nat
    PROVE  (a >= b <=> a > b - 1) /\ (a <= b => ~(a > b))
  OBVIOUS

LEMMA ChannelSpend ==
    ASSUME spare \in SpareType, NEW what \in {"posts", "marks", "deletes", "faults"},
           Spend(what)
    PROVE  spare' \in SpareType
  BY DEF SpareType, Spend

(* Whatever begins alone finds nothing under way and the badge right. *)
LEMMA ChannelBegins ==
    ASSUME UnreadInv, Begins
    PROVE  /\ overlapped' \in BOOLEAN
           /\ ~overlapped' =>
                /\ ~overlapped /\ marking = None /\ unmarking = None /\ recount = None
                /\ Resting /\ \A m \in Message : msg[m].is # "inserted"
                /\ row.unread = Cardinality(Since(row.readAt))
  <1>1. overlapped' \in BOOLEAN
    BY Zenon DEF Begins
  <1>2. ~overlapped' => ~overlapped /\ ~Busy
    BY Zenon DEF Begins
  <1> QED
    BY <1>1, <1>2 DEF Busy, UnreadInv, AloneOK, CountAlone, Resting

LEMMA ChannelPost ==
    ASSUME UnreadInv, NEW m \in Message, NEW kind \in Kind, Post(m, kind)
    PROVE  UnreadInv'
  <1> USE UnreadAssumption DEF UnreadInv, Post
  <1>1. spare \in SpareType /\ spare' \in SpareType
    BY ChannelSpend DEF UnreadTypeOK, SpareType
  <1>2. /\ overlapped' \in BOOLEAN
        /\ ~overlapped' =>
             /\ ~overlapped /\ marking = None /\ unmarking = None /\ recount = None
             /\ Resting /\ \A n \in Message : msg[n].is # "inserted"
             /\ row.unread = Cardinality(Since(row.readAt))
    BY ChannelBegins
  <1>3. msg' \in [Message -> MessageType]
    BY DEF UnreadTypeOK, MessageType, Instant, Kind
  <1>4. \A n \in Message \ {m} : msg'[n] = msg[n]
    BY DEF UnreadTypeOK
  <1>5. msg'[m].is = "inserted" /\ msg'[m].created = clock + 2
    BY DEF UnreadTypeOK
  <1>6. Replied' = Replied /\ Posted' = Posted /\ \A t : Since(t)' = Since(t)
    BY <1>4, <1>5, ChannelUncounted
  <1>7. UnreadTypeOK'
    BY <1>1, <1>2, <1>3 DEF UnreadTypeOK, MessageType, SpareType, Instant
  <1>8. DatesOK'
    BY <1>4, <1>5 DEF DatesOK, UnreadTypeOK, Instant, Row
  <1>9. HolderOK'
    BY <1>4 DEF HolderOK, UnreadTypeOK
  <1>10. DeletingOK'
    BY <1>4, <1>5 DEF DeletingOK, UnreadTypeOK
  <1>11. BoundOK'
    BY <1>6 DEF BoundOK
  <1>12. RepliesAreCounted'
    BY <1>6 DEF RepliesAreCounted, Replied
  <1>13. AloneOK'
    <2> SUFFICES ASSUME ~overlapped'
                 PROVE  InsertAlone' /\ MarkAlone' /\ DeleteAlone' /\ CountAlone'
      BY <1>2 DEF AloneOK
    <2>1. InsertAlone'
      BY <1>2, <1>4, <1>5 DEF InsertAlone, Resting, DatesOK, UnreadTypeOK, Instant, Row
    <2> QED
      BY <1>2, <1>6, <2>1 DEF MarkAlone, DeleteAlone, CountAlone, Resting
  <1> QED
    BY <1>7, <1>8, <1>9, <1>10, <1>11, <1>12, <1>13 DEF UnreadInv

LEMMA ChannelBump ==
    ASSUME UnreadInv, NEW m \in Message, Bump(m)
    PROVE  UnreadInv'
  <1> USE UnreadAssumption DEF UnreadInv, Bump, Bumps, RowIsFree
  <1>1. Replied' = Replied /\ Posted' = Posted /\ \A t : Since(t)' = Since(t)
    BY ChannelSameMessages
  <1>2. UnreadTypeOK'
    BY DEF UnreadTypeOK
  <1>3. DatesOK'
    BY DEF DatesOK
  <1>4. HolderOK'
    BY DEF HolderOK
  <1>5. DeletingOK'
    BY DEF DeletingOK
  <1>6. BoundOK'
    BY <1>1 DEF BoundOK
  <1>7. RepliesAreCounted'
    BY <1>1 DEF RepliesAreCounted, Replied
  <1>8. AloneOK'
    BY <1>1 DEF AloneOK, InsertAlone, MarkAlone, DeleteAlone, CountAlone, Resting
  <1> QED
    BY <1>2, <1>3, <1>4, <1>5, <1>6, <1>7, <1>8 DEF UnreadInv

LEMMA ChannelCommitPost ==
    ASSUME UnreadInv, NEW m \in Message, CommitPost(m)
    PROVE  UnreadInv'
  <1> USE UnreadAssumption DEF UnreadInv, CommitPost, Bumps
  <1>1. msg' \in [Message -> MessageType]
    BY DEF UnreadTypeOK, MessageType
  <1>2. \A n \in Message \ {m} : msg'[n] = msg[n]
    BY DEF UnreadTypeOK
  <1>3. /\ msg'[m].is = "live"
        /\ msg'[m].kind = msg[m].kind /\ msg'[m].created = msg[m].created
    BY DEF UnreadTypeOK
  <1>4. /\ m \notin Replied /\ m \notin Posted
        /\ Replied' = IF msg[m].kind = "reply" THEN Replied \cup {m} ELSE Replied
        /\ Posted' = IF msg[m].kind = "channel" THEN Posted \cup {m} ELSE Posted
        /\ \A t : /\ m \notin Since(t)
                  /\ Since(t)' = IF msg[m].kind = "channel" /\ msg[m].created > t
                                 THEN Since(t) \cup {m} ELSE Since(t)
    BY <1>2, <1>3, ChannelCommitted
  <1>5. /\ Cardinality(Posted') = Cardinality(Posted) + (IF msg[m].kind = "channel" THEN 1 ELSE 0)
        /\ Cardinality(Replied') = Cardinality(Replied) + (IF msg[m].kind = "reply" THEN 1 ELSE 0)
        /\ Cardinality(Posted) \in Nat /\ Cardinality(Replied) \in Nat
    <2>1. /\ IsFiniteSet(Posted) /\ IsFiniteSet(Replied)
          /\ Cardinality(Posted) \in Nat /\ Cardinality(Replied) \in Nat
      BY ChannelCounts
    <2>2. /\ Cardinality(Posted \cup {m}) = Cardinality(Posted) + 1
          /\ Cardinality(Replied \cup {m}) = Cardinality(Replied) + 1
      BY <1>4, <2>1, FS_AddElement
    <2> QED
      BY <1>4, <2>1, <2>2
  <1>6. ASSUME NEW t
        PROVE  Cardinality(Since(t)') = Cardinality(Since(t)) +
                   (IF msg[m].kind = "channel" /\ msg[m].created > t THEN 1 ELSE 0)
    <2>1. IsFiniteSet(Since(t)) /\ Cardinality(Since(t)) \in Nat
      BY ChannelCounts
    <2> QED
      BY <1>4, <2>1, FS_AddElement
  <1>7. Posted' \subseteq Message /\ Replied' \subseteq Message
    BY DEF Posted, Replied
  <1>8. /\ Cardinality(Posted') <= Cardinality(Message)
        /\ Cardinality(Replied') <= Cardinality(Message) /\ Cardinality(Message) \in Nat
    BY <1>7, FS_Subset, FS_CardinalityType
  <1>9. /\ holder = m <=> msg[m].kind = "channel"
        /\ row'.unread = row.unread + (IF msg[m].kind = "channel" THEN 1 ELSE 0)
        /\ row'.readAt = row.readAt /\ row' \in [unread : Nat, readAt : Nat]
    BY DEF HolderOK, UnreadTypeOK, Row, Instant
  <1>10. BoundOK'
    BY <1>5, <1>9 DEF BoundOK, UnreadTypeOK, Row, Instant
  <1>11. RepliesAreCounted'
    BY <1>5 DEF RepliesAreCounted, Replied
  <1>12. recent' \in BOOLEAN /\ swept' \in BOOLEAN
    BY Zenon
  <1>13. UnreadTypeOK'
    BY <1>1, <1>5, <1>8, <1>9, <1>12, <1>10, <1>11
       DEF UnreadTypeOK, MessageType, Row, Instant, BoundOK, RepliesAreCounted, Replied
  <1>14. DatesOK'
    BY <1>2, <1>3, <1>9 DEF DatesOK
  <1>15. HolderOK'
    BY <1>2, <1>3 DEF HolderOK, UnreadTypeOK
  <1>16. DeletingOK'
    BY <1>2, <1>3 DEF DeletingOK
  <1>17. AloneOK'
    <2> SUFFICES ASSUME ~overlapped
                 PROVE  /\ recount' = None /\ InsertAlone' /\ MarkAlone'
                        /\ DeleteAlone' /\ CountAlone'
      BY DEF AloneOK
    <2>1. /\ \A n \in Message : msg'[n].is # "inserted"
          /\ marking = None /\ unmarking = None /\ Resting /\ recount = None
          /\ row.readAt < msg[m].created
      BY <1>2, <1>3 DEF AloneOK, InsertAlone
    <2>2. row.unread = Cardinality(Since(row.readAt))
      BY <2>1 DEF AloneOK, CountAlone, Resting
    <2>3. row'.unread = Cardinality(Since(row.readAt)')
      BY <1>6, <1>9, <2>1, <2>2
    <2> QED
      BY <1>9, <2>1, <2>3 DEF InsertAlone, MarkAlone, DeleteAlone, CountAlone, Resting
  <1> QED
    BY <1>13, <1>14, <1>15, <1>16, <1>10, <1>11, <1>17 DEF UnreadInv

LEMMA ChannelRollBack ==
    ASSUME UnreadInv, NEW m \in Message, RollBack(m)
    PROVE  UnreadInv'
  <1> USE UnreadAssumption DEF UnreadInv, RollBack
  <1>1. spare \in SpareType /\ spare' \in SpareType
    BY ChannelSpend DEF UnreadTypeOK, SpareType
  <1>2. msg' \in [Message -> MessageType]
    BY DEF UnreadTypeOK, MessageType
  <1>3. \A n \in Message \ {m} : msg'[n] = msg[n]
    BY DEF UnreadTypeOK
  <1>4. /\ msg'[m].is = "undone"
        /\ msg'[m].kind = msg[m].kind /\ msg'[m].created = msg[m].created
    BY DEF UnreadTypeOK
  <1>5. Replied' = Replied /\ Posted' = Posted /\ \A t : Since(t)' = Since(t)
    BY <1>3, <1>4, ChannelUncounted
  <1>6. UnreadTypeOK'
    BY <1>1, <1>2 DEF UnreadTypeOK, MessageType, SpareType
  <1>7. DatesOK'
    BY <1>3, <1>4 DEF DatesOK
  <1>8. HolderOK'
    BY <1>3, <1>4 DEF HolderOK, UnreadTypeOK
  <1>9. DeletingOK'
    BY <1>3, <1>4 DEF DeletingOK
  <1>10. BoundOK'
    BY <1>5 DEF BoundOK
  <1>11. RepliesAreCounted'
    BY <1>5 DEF RepliesAreCounted, Replied
  <1>12. AloneOK'
    BY <1>3, <1>4, <1>5 DEF AloneOK, InsertAlone, MarkAlone, DeleteAlone, CountAlone,
       Resting, DeletingOK
  <1> QED
    BY <1>6, <1>7, <1>8, <1>9, <1>10, <1>11, <1>12 DEF UnreadInv

LEMMA ChannelBeginRead ==
    ASSUME UnreadInv, BeginRead
    PROVE  UnreadInv'
  <1> USE UnreadAssumption DEF UnreadInv, BeginRead
  <1>1. spare \in SpareType /\ spare' \in SpareType
    BY ChannelSpend DEF UnreadTypeOK, SpareType
  <1>2. /\ overlapped' \in BOOLEAN
        /\ ~overlapped' =>
             /\ ~overlapped /\ marking = None /\ unmarking = None /\ recount = None
             /\ Resting /\ \A n \in Message : msg[n].is # "inserted"
             /\ row.unread = Cardinality(Since(row.readAt))
    BY ChannelBegins
  <1>3. Replied' = Replied /\ Posted' = Posted /\ \A t : Since(t)' = Since(t)
    BY ChannelSameMessages
  <1>4. UnreadTypeOK'
    BY <1>1, <1>2 DEF UnreadTypeOK, SpareType, Instant
  <1>5. DatesOK'
    BY DEF DatesOK, UnreadTypeOK, Instant, Row
  <1>6. HolderOK'
    BY DEF HolderOK
  <1>7. DeletingOK'
    BY DEF DeletingOK
  <1>8. BoundOK'
    BY <1>3 DEF BoundOK
  <1>9. RepliesAreCounted'
    BY <1>3 DEF RepliesAreCounted, Replied
  <1>10. AloneOK'
    BY <1>2, <1>3 DEF AloneOK, InsertAlone, MarkAlone, DeleteAlone, CountAlone, Resting
  <1> QED
    BY <1>4, <1>5, <1>6, <1>7, <1>8, <1>9, <1>10 DEF UnreadInv

LEMMA ChannelFinishRead ==
    ASSUME UnreadInv, FinishRead
    PROVE  UnreadInv'
  <1> USE UnreadAssumption DEF UnreadInv, FinishRead, ReadRow
  <1>1. Replied' = Replied /\ Posted' = Posted /\ \A t : Since(t)' = Since(t)
    BY ChannelSameMessages
  <1>2. Cardinality(Posted) \in Nat /\ Cardinality(Message) \in Nat
    BY ChannelCounts
  <1>3. row'.unread = 0 /\ row'.readAt = marking
    OBVIOUS
  <1>4. marking \in Nat /\ clock \in Nat
    BY DEF UnreadTypeOK, Instant
  <1>5. UnreadTypeOK'
    BY <1>2, <1>4 DEF UnreadTypeOK, Row, Instant
  <1>6. DatesOK'
    BY <1>3, <1>4 DEF DatesOK
  <1>7. HolderOK'
    BY DEF HolderOK
  <1>8. DeletingOK'
    BY DEF DeletingOK
  <1>9. BoundOK'
    BY <1>2, <1>3, <1>1 DEF BoundOK
  <1>10. RepliesAreCounted'
    BY <1>1 DEF RepliesAreCounted, Replied
  <1>11. AloneOK'
    <2> SUFFICES ASSUME ~overlapped
                 PROVE  /\ recount' = None /\ InsertAlone' /\ MarkAlone'
                        /\ DeleteAlone' /\ CountAlone'
      BY DEF AloneOK
    <2>1. unmarking = None /\ Resting /\ marking = clock /\ recount = None
      BY DEF AloneOK, MarkAlone
    <2>2. \A n \in Message : msg[n].is # "inserted"
      BY DEF AloneOK, InsertAlone
    <2>3. Since(clock) = {}
      <3>1. \A n \in Message : msg[n].created \in Nat /\ msg[n].created <= clock
        BY DEF DatesOK, UnreadTypeOK, Instant
      <3>2. \A n \in Message : ~(msg[n].created > clock)
        BY <1>4, <3>1, ChannelLater, Zenon
      <3> QED
        BY <3>2 DEF Since, Counted
    <2>4. Cardinality(Since(row.readAt)') = 0
      BY <1>3, <1>1, <2>1, <2>3, FS_EmptySet
    <2> QED
      BY <1>3, <2>1, <2>2, <2>4 DEF InsertAlone, MarkAlone, DeleteAlone, CountAlone, Resting
  <1> QED
    BY <1>5, <1>6, <1>7, <1>8, <1>9, <1>10, <1>11 DEF UnreadInv

LEMMA ChannelBeginUnread ==
    ASSUME UnreadInv, NEW m \in Message, BeginUnread(m)
    PROVE  UnreadInv'
  <1> USE UnreadAssumption DEF UnreadInv, BeginUnread, UnreadRow
  <1>1. spare \in SpareType /\ spare' \in SpareType
    BY ChannelSpend DEF UnreadTypeOK, SpareType
  <1>2. /\ overlapped' \in BOOLEAN
        /\ ~overlapped' =>
             /\ ~overlapped /\ marking = None /\ unmarking = None /\ recount = None
             /\ Resting /\ \A n \in Message : msg[n].is # "inserted"
             /\ row.unread = Cardinality(Since(row.readAt))
    BY ChannelBegins
  <1>3. Replied' = Replied /\ Posted' = Posted /\ \A t : Since(t)' = Since(t)
    BY ChannelSameMessages
  <1>4. msg[m].created \in Nat /\ msg[m].created > 0 /\ msg[m].created <= clock /\ clock \in Nat
    BY DEF UnreadTypeOK, Instant, DatesOK
  <1>5. {n \in Counted : msg[n].created >= msg[m].created} = Since(msg[m].created - 1)
    <2>1. \A n \in Message : msg[n].created \in Nat
      BY DEF UnreadTypeOK, Instant
    <2>2. \A n \in Message :
              msg[n].created >= msg[m].created <=> msg[n].created > msg[m].created - 1
      <3> SUFFICES ASSUME NEW n \in Message
                   PROVE  msg[n].created >= msg[m].created <=> msg[n].created > msg[m].created - 1
        OBVIOUS
      <3> QED
        BY <1>4, <2>1, ChannelLater, Zenon
    <2> QED
      BY <2>2 DEF Since, Counted
  <1>6. /\ unmarking'.unread = Cardinality(Since(msg[m].created - 1))
        /\ unmarking'.readAt = msg[m].created - 1
    BY <1>5
  <1>7. /\ Cardinality(Since(msg[m].created - 1)) \in Nat /\ Cardinality(Posted) \in Nat
        /\ Cardinality(Since(msg[m].created - 1)) <= Cardinality(Posted)
        /\ Cardinality(Posted) <= Cardinality(Message) /\ Cardinality(Message) \in Nat
    BY ChannelCounts
  <1>8. unmarking' \in Row
    <2>1. unmarking' = [unread |-> Cardinality(Since(msg[m].created - 1)),
                        readAt |-> msg[m].created - 1]
      BY <1>5
    <2>2. /\ Cardinality(Since(msg[m].created - 1)) \in 0..Cardinality(Message)
          /\ msg[m].created - 1 \in Nat
      BY <1>4, <1>7
    <2> QED
      BY <2>1, <2>2 DEF Row, Instant
  <1>9. UnreadTypeOK'
    BY <1>1, <1>2, <1>8 DEF UnreadTypeOK, SpareType
  <1>10. DatesOK'
    BY <1>4, <1>6 DEF DatesOK
  <1>11. HolderOK'
    BY DEF HolderOK
  <1>12. DeletingOK'
    BY DEF DeletingOK
  <1>13. BoundOK'
    BY <1>3, <1>6, <1>7 DEF BoundOK
  <1>14. RepliesAreCounted'
    BY <1>3 DEF RepliesAreCounted, Replied
  <1>15. AloneOK'
    BY <1>2, <1>3, <1>6 DEF AloneOK, InsertAlone, MarkAlone, DeleteAlone, CountAlone,
       Resting
  <1> QED
    BY <1>9, <1>10, <1>11, <1>12, <1>13, <1>14, <1>15 DEF UnreadInv

LEMMA ChannelFinishUnread ==
    ASSUME UnreadInv, FinishUnread
    PROVE  UnreadInv'
  <1> USE UnreadAssumption DEF UnreadInv, FinishUnread
  <1>1. Replied' = Replied /\ Posted' = Posted /\ \A t : Since(t)' = Since(t)
    BY ChannelSameMessages
  <1>2. UnreadTypeOK'
    BY DEF UnreadTypeOK
  <1>3. DatesOK'
    BY DEF DatesOK
  <1>4. HolderOK'
    BY DEF HolderOK
  <1>5. DeletingOK'
    BY DEF DeletingOK
  <1>6. BoundOK'
    BY <1>1 DEF BoundOK
  <1>7. RepliesAreCounted'
    BY <1>1 DEF RepliesAreCounted, Replied
  <1>8. AloneOK'
    BY <1>1 DEF AloneOK, InsertAlone, MarkAlone, DeleteAlone, CountAlone, Resting
  <1> QED
    BY <1>2, <1>3, <1>4, <1>5, <1>6, <1>7, <1>8 DEF UnreadInv

LEMMA ChannelFindMessage ==
    ASSUME UnreadInv, NEW d \in Deleter, NEW m \in Message, FindMessage(d, m)
    PROVE  UnreadInv'
  <1> USE UnreadAssumption DEF UnreadInv, FindMessage
  <1>1. spare \in SpareType /\ spare' \in SpareType
    BY ChannelSpend DEF UnreadTypeOK, SpareType
  <1>2. /\ overlapped' \in BOOLEAN
        /\ ~overlapped' =>
             /\ ~overlapped /\ marking = None /\ unmarking = None /\ recount = None
             /\ Resting /\ \A n \in Message : msg[n].is # "inserted"
             /\ row.unread = Cardinality(Since(row.readAt))
    BY ChannelBegins
  <1>3. Replied' = Replied /\ Posted' = Posted /\ \A t : Since(t)' = Since(t)
    BY ChannelSameMessages
  <1>4. UnreadTypeOK'
    BY <1>1, <1>2 DEF UnreadTypeOK, SpareType
  <1>5. DatesOK'
    BY DEF DatesOK
  <1>6. HolderOK'
    BY DEF HolderOK
  <1>7. DeletingOK'
    BY DEF DeletingOK, UnreadTypeOK
  <1>8. BoundOK'
    BY <1>3 DEF BoundOK
  <1>9. RepliesAreCounted'
    BY <1>3 DEF RepliesAreCounted, Replied
  <1>10. AloneOK'
    BY <1>2, <1>3 DEF AloneOK, InsertAlone, MarkAlone, DeleteAlone, CountAlone, Resting,
       UnreadTypeOK
  <1> QED
    BY <1>4, <1>5, <1>6, <1>7, <1>8, <1>9, <1>10 DEF UnreadInv

LEMMA ChannelDropUnread ==
    ASSUME UnreadInv, NEW d \in Deleter, DropUnread(d)
    PROVE  UnreadInv'
  <1> USE UnreadAssumption DEF UnreadInv, DropUnread, Uncounts, OneLess
  <1>1. Replied' = Replied /\ Posted' = Posted /\ \A t : Since(t)' = Since(t)
    BY ChannelSameMessages
  <1>2. deleting' \in [Deleter -> DeletingType]
    BY DEF UnreadTypeOK, DeletingType
  <1>3. \A e \in Deleter \ {d} : deleting'[e] = deleting[e]
    BY DEF UnreadTypeOK
  <1>4. deleting'[d].at = "dropped" /\ deleting'[d].m = deleting[d].m
    BY DEF UnreadTypeOK
  <1>5. row.unread \in Nat /\ row.unread <= Cardinality(Message) /\ row.readAt \in Nat
    BY ChannelCounts DEF UnreadTypeOK, Row, Instant
  <1>6. Max({row.unread - 1, 0}) = IF row.unread > 0 THEN row.unread - 1 ELSE 0
    BY <1>5, ChannelOneLess
  <1>7. /\ row'.readAt = row.readAt /\ row' \in [unread : Nat, readAt : Nat]
        /\ row'.unread <= row.unread
    <2>1. row \in [unread : Nat, readAt : Nat]
      BY <1>5 DEF UnreadTypeOK, Row, Instant
    <2>2. CASE row' = row
      BY <1>5, <2>1, <2>2
    <2>3. CASE row' = [row EXCEPT !.unread = IF row.unread > 0 THEN row.unread - 1 ELSE 0]
      BY <1>5, <2>1, <2>3
    <2> QED
      BY <1>6, <2>2, <2>3
  <1>8. Cardinality(Posted) \in Nat /\ Cardinality(Message) \in Nat
    BY ChannelCounts
  <1>9. UnreadTypeOK'
    BY <1>2, <1>5, <1>7, <1>8 DEF UnreadTypeOK, DeletingType, Row, Instant
  <1>10. DatesOK'
    BY <1>7 DEF DatesOK
  <1>11. HolderOK'
    BY DEF HolderOK
  <1>12. DeletingOK'
    BY <1>3, <1>4 DEF DeletingOK
  <1>13. BoundOK'
    BY <1>1, <1>5, <1>7, <1>8 DEF BoundOK
  <1>14. RepliesAreCounted'
    BY <1>1 DEF RepliesAreCounted, Replied
  <1>15. AloneOK'
    <2> SUFFICES ASSUME ~overlapped
                 PROVE  /\ recount' = None /\ InsertAlone' /\ MarkAlone'
                        /\ DeleteAlone' /\ CountAlone'
      BY DEF AloneOK
    <2>1. /\ \A e \in Deleter : deleting[e].at # "idle" => e = d
          /\ msg[deleting[d].m].is = "live" /\ deleting[d].m \in Message
          /\ recount = None /\ marking = None /\ unmarking = None
          /\ \A n \in Message : msg[n].is # "inserted"
      BY DEF AloneOK, DeleteAlone, MarkAlone, InsertAlone, Resting, DeletingOK
    <2>2. row.unread = Cardinality(Since(row.readAt))
      BY <2>1 DEF AloneOK, CountAlone
    <2>3. /\ IsFiniteSet(Since(row.readAt))
          /\ deleting[d].m \in Since(row.readAt) <=> Uncounts(deleting[d].m)
      BY <2>1, ChannelCounts DEF Since, Counted
    <2>4. Cardinality(Since(row.readAt) \ {deleting[d].m}) =
              IF Uncounts(deleting[d].m) THEN row.unread - 1 ELSE row.unread
      BY <2>2, <2>3, FS_RemoveElement, ZenonT(40)
    <2>5. Uncounts(deleting[d].m) => row.unread > 0
      BY <1>5, <2>2, <2>3, FS_EmptySet
    <2>6. row'.unread = Cardinality(Since(row.readAt) \ {deleting[d].m})
      BY <1>6, <2>4, <2>5 DEF UnreadTypeOK, Row
    <2> QED
      BY <1>1, <1>3, <1>4, <1>7, <2>1, <2>6
         DEF InsertAlone, MarkAlone, DeleteAlone, CountAlone, Resting
  <1> QED
    BY <1>9, <1>10, <1>11, <1>12, <1>13, <1>14, <1>15 DEF UnreadInv

LEMMA ChannelDropFails ==
    ASSUME UnreadInv, NEW d \in Deleter, DropFails(d)
    PROVE  UnreadInv'
  <1> USE UnreadAssumption DEF UnreadInv, DropFails, Fails
  <1>1. spare \in SpareType /\ spare' \in SpareType
    BY ChannelSpend DEF UnreadTypeOK, SpareType
  <1>2. Replied' = Replied /\ Posted' = Posted /\ \A t : Since(t)' = Since(t)
    BY ChannelSameMessages
  <1>3. deleting' \in [Deleter -> DeletingType]
    BY DEF UnreadTypeOK, DeletingType
  <1>4. \A e \in Deleter \ {d} : deleting'[e] = deleting[e]
    BY DEF UnreadTypeOK
  <1>5. deleting'[d].at = "dropped" /\ deleting'[d].m = deleting[d].m
    BY DEF UnreadTypeOK
  <1>6. overlapped' \in BOOLEAN /\ overlapped'
    BY Zenon
  <1>7. UnreadTypeOK'
    BY <1>1, <1>3, <1>6 DEF UnreadTypeOK, SpareType, DeletingType
  <1>8. DatesOK'
    BY DEF DatesOK
  <1>9. HolderOK'
    BY DEF HolderOK
  <1>10. DeletingOK'
    BY <1>4, <1>5 DEF DeletingOK
  <1>11. BoundOK'
    BY <1>2 DEF BoundOK
  <1>12. RepliesAreCounted'
    BY <1>2 DEF RepliesAreCounted, Replied
  <1>13. AloneOK'
    BY <1>6 DEF AloneOK
  <1> QED
    BY <1>7, <1>8, <1>9, <1>10, <1>11, <1>12, <1>13 DEF UnreadInv

LEMMA ChannelErase ==
    ASSUME UnreadInv, NEW d \in Deleter, Erase(d)
    PROVE  UnreadInv'
  <1> USE UnreadAssumption DEF UnreadInv, Erase, Takes
  <1>1. deleting' \in [Deleter -> DeletingType]
    BY DEF UnreadTypeOK, DeletingType, NoDelete
  <1>2. \A e \in Deleter \ {d} : deleting'[e] = deleting[e]
    BY DEF UnreadTypeOK
  <1>3. deleting'[d].at = "idle"
    BY DEF UnreadTypeOK, NoDelete
  <1> DEFINE m == deleting[d].m
  <1>4. m \in Message /\ msg[m].is \in {"live", "gone"}
    BY DEF DeletingOK
  <1>5. msg' \in [Message -> MessageType]
    BY <1>4 DEF UnreadTypeOK, MessageType
  <1>6. \A n \in Message \ {m} : msg'[n] = msg[n]
    BY <1>4 DEF UnreadTypeOK
  <1>7. /\ msg'[m].is = "gone"
        /\ msg'[m].kind = msg[m].kind /\ msg'[m].created = msg[m].created
    BY <1>4 DEF UnreadTypeOK
  <1>8. Replied' = Replied \ {m} /\ Posted' = Posted /\ \A t : Since(t)' = Since(t) \ {m}
    BY <1>4, <1>6, <1>7, ChannelErased
  <1>9. replies = Cardinality(Replied) /\ replies \in Nat /\ replies <= Cardinality(Message)
    BY ChannelCounts DEF RepliesAreCounted, Replied
  <1>10. m \in Replied <=> Takes(m) /\ msg[m].kind = "reply"
    BY <1>4 DEF Replied
  <1>11. Cardinality(Replied') = IF m \in Replied THEN replies - 1 ELSE replies
    BY <1>8, <1>9, ChannelCounts, FS_RemoveElement
  <1>12. m \in Replied => replies > 0
    BY <1>9, ChannelCounts, FS_EmptySet
  <1>13. Max({replies - 1, 0}) = IF replies > 0 THEN replies - 1 ELSE 0
    BY <1>9, ChannelOneLess
  <1>14. replies' = Cardinality(Replied') /\ replies' \in Nat /\ replies' <= Cardinality(Message)
    BY <1>9, <1>10, <1>11, <1>12, <1>13, ChannelCounts
  <1>15. UnreadTypeOK'
    BY <1>1, <1>5, <1>14, ChannelCounts DEF UnreadTypeOK, DeletingType, MessageType
  <1>16. DatesOK'
    BY <1>4, <1>6, <1>7 DEF DatesOK
  <1>17. HolderOK'
    BY <1>4, <1>6, <1>7 DEF HolderOK, UnreadTypeOK
  <1>18. DeletingOK'
    BY <1>2, <1>3, <1>4, <1>6, <1>7 DEF DeletingOK
  <1>19. BoundOK'
    BY <1>8 DEF BoundOK
  <1>20. RepliesAreCounted'
    BY <1>14 DEF RepliesAreCounted, Replied
  <1>21. AloneOK'
    <2> SUFFICES ASSUME ~overlapped
                 PROVE  /\ recount' = None /\ InsertAlone' /\ MarkAlone'
                        /\ DeleteAlone' /\ CountAlone'
      BY DEF AloneOK
    <2>1. /\ \A e \in Deleter : deleting[e].at # "idle" => e = d
          /\ recount = None /\ marking = None /\ unmarking = None
          /\ \A n \in Message : msg[n].is # "inserted"
      BY DEF AloneOK, DeleteAlone, MarkAlone, InsertAlone, Resting
    <2>2. \A e \in Deleter : deleting'[e].at = "idle"
      BY <1>2, <1>3, <2>1
    <2>3. row.unread = Cardinality(Since(row.readAt) \ {m})
      BY DEF AloneOK, CountAlone
    <2>4. \A n \in Message : msg'[n].is # "inserted"
      BY <1>6, <1>7, <2>1
    <2> QED
      BY <1>8, <2>1, <2>2, <2>3, <2>4 DEF InsertAlone, MarkAlone, DeleteAlone, CountAlone,
         Resting
  <1> QED
    BY <1>15, <1>16, <1>17, <1>18, <1>19, <1>20, <1>21 DEF UnreadInv

LEMMA ChannelEraseFails ==
    ASSUME UnreadInv, NEW d \in Deleter, EraseFails(d)
    PROVE  UnreadInv'
  <1> USE UnreadAssumption DEF UnreadInv, EraseFails, Fails
  <1>1. spare \in SpareType /\ spare' \in SpareType
    BY ChannelSpend DEF UnreadTypeOK, SpareType
  <1>2. Replied' = Replied /\ Posted' = Posted /\ \A t : Since(t)' = Since(t)
    BY ChannelSameMessages
  <1>3. deleting' \in [Deleter -> DeletingType]
    BY DEF UnreadTypeOK, DeletingType, NoDelete
  <1>4. \A e \in Deleter \ {d} : deleting'[e] = deleting[e]
    BY DEF UnreadTypeOK
  <1>5. deleting'[d].at = "idle"
    BY DEF UnreadTypeOK, NoDelete
  <1>6. overlapped' \in BOOLEAN /\ overlapped'
    BY Zenon
  <1>7. UnreadTypeOK'
    BY <1>1, <1>3, <1>6 DEF UnreadTypeOK, SpareType, DeletingType
  <1>8. DatesOK'
    BY DEF DatesOK
  <1>9. HolderOK'
    BY DEF HolderOK
  <1>10. DeletingOK'
    BY <1>4, <1>5 DEF DeletingOK
  <1>11. BoundOK'
    BY <1>2 DEF BoundOK
  <1>12. RepliesAreCounted'
    BY <1>2 DEF RepliesAreCounted, Replied
  <1>13. AloneOK'
    BY <1>6 DEF AloneOK
  <1> QED
    BY <1>7, <1>8, <1>9, <1>10, <1>11, <1>12, <1>13 DEF UnreadInv

LEMMA ChannelBeginRecount ==
    ASSUME UnreadInv, BeginRecount
    PROVE  UnreadInv'
  <1> USE UnreadAssumption DEF UnreadInv, BeginRecount
  <1>1. Replied' = Replied /\ Posted' = Posted /\ \A t : Since(t)' = Since(t)
    BY ChannelSameMessages
  <1>2. swept' \in BOOLEAN
    BY Zenon
  <1>3. Truth = Cardinality(Since(row.readAt))
    BY DEF Truth, UnreadSince, Since
  <1>4. /\ Truth \in Nat /\ Truth <= Cardinality(Posted) /\ Cardinality(Posted) \in Nat
        /\ Truth <= Cardinality(Message) /\ Cardinality(Message) \in Nat
    BY <1>3, ChannelCounts
  <1>5. /\ overlapped' \in BOOLEAN
        /\ ~overlapped' => ~overlapped /\ recount' = None
    <2>1. CASE ~Picks
      BY <2>1 DEF UnreadTypeOK
    <2>2. CASE Picks
      BY <1>3, <2>2, ChannelBegins DEF Picks
    <2> QED
      BY <2>1, <2>2
  <1>6. UnreadTypeOK'
    BY <1>2, <1>4, <1>5 DEF UnreadTypeOK
  <1>7. DatesOK'
    BY DEF DatesOK
  <1>8. HolderOK'
    BY DEF HolderOK
  <1>9. DeletingOK'
    BY DEF DeletingOK
  <1>10. BoundOK'
    BY <1>1, <1>4 DEF BoundOK
  <1>11. RepliesAreCounted'
    BY <1>1 DEF RepliesAreCounted, Replied
  <1>12. AloneOK'
    BY <1>1, <1>5 DEF AloneOK, InsertAlone, MarkAlone, DeleteAlone, CountAlone, Resting
  <1> QED
    BY <1>6, <1>7, <1>8, <1>9, <1>10, <1>11, <1>12 DEF UnreadInv

LEMMA ChannelFinishRecount ==
    ASSUME UnreadInv, FinishRecount
    PROVE  UnreadInv'
  <1> USE UnreadAssumption DEF UnreadInv, FinishRecount
  <1>1. Replied' = Replied /\ Posted' = Posted /\ \A t : Since(t)' = Since(t)
    BY ChannelSameMessages
  <1>2. row' \in Row /\ row'.unread = recount /\ row'.readAt = row.readAt
    BY DEF UnreadTypeOK, Row
  <1>3. UnreadTypeOK'
    BY <1>2 DEF UnreadTypeOK
  <1>4. DatesOK'
    BY <1>2 DEF DatesOK
  <1>5. HolderOK'
    BY DEF HolderOK
  <1>6. DeletingOK'
    BY DEF DeletingOK
  <1>7. BoundOK'
    BY <1>2, <1>1 DEF BoundOK
  <1>8. RepliesAreCounted'
    BY <1>1 DEF RepliesAreCounted, Replied
  <1>9. AloneOK'
    BY DEF AloneOK
  <1> QED
    BY <1>3, <1>4, <1>5, <1>6, <1>7, <1>8, <1>9 DEF UnreadInv

LEMMA ChannelGoesQuiet ==
    ASSUME UnreadInv, GoesQuiet
    PROVE  UnreadInv'
  <1> USE UnreadAssumption DEF UnreadInv, GoesQuiet
  <1>1. Replied' = Replied /\ Posted' = Posted /\ \A t : Since(t)' = Since(t)
    BY ChannelSameMessages
  <1>2. recent' \in BOOLEAN
    BY Zenon
  <1>3. UnreadTypeOK'
    BY <1>2 DEF UnreadTypeOK
  <1>4. DatesOK'
    BY DEF DatesOK
  <1>5. HolderOK'
    BY DEF HolderOK
  <1>6. DeletingOK'
    BY DEF DeletingOK
  <1>7. BoundOK'
    BY <1>1 DEF BoundOK
  <1>8. RepliesAreCounted'
    BY <1>1 DEF RepliesAreCounted, Replied
  <1>9. AloneOK'
    BY <1>1 DEF AloneOK, InsertAlone, MarkAlone, DeleteAlone, CountAlone, Resting
  <1> QED
    BY <1>3, <1>4, <1>5, <1>6, <1>7, <1>8, <1>9 DEF UnreadInv

LEMMA ChannelUnreadStep == UnreadInv /\ [UnreadNext]_unreadVars => UnreadInv'
  <1> SUFFICES ASSUME UnreadInv, [UnreadNext]_unreadVars PROVE UnreadInv'
    OBVIOUS
  <1>1. CASE UNCHANGED unreadVars
    <2>1. Replied' = Replied /\ Posted' = Posted /\ \A t : Since(t)' = Since(t)
      BY <1>1, ChannelSameMessages DEF unreadVars
    <2>2. RepliesAreCounted'
      BY <1>1, <2>1 DEF unreadVars, UnreadInv, RepliesAreCounted, Replied
    <2>3. AloneOK'
      BY <1>1, <2>1 DEF unreadVars, UnreadInv, AloneOK, InsertAlone, MarkAlone,
         DeleteAlone, CountAlone, Resting
    <2> QED
      BY <1>1, <2>1, <2>2, <2>3 DEF unreadVars, UnreadInv, UnreadTypeOK, DatesOK,
         HolderOK, DeletingOK, BoundOK
  <1>2. CASE UnreadNext
    BY <1>2, ChannelBump, ChannelCommitPost, ChannelRollBack, ChannelBeginUnread,
       ChannelPost, ChannelFindMessage, ChannelBeginRead, ChannelFinishRead,
       ChannelFinishUnread, ChannelDropUnread, ChannelDropFails, ChannelErase,
       ChannelEraseFails, ChannelBeginRecount, ChannelFinishRecount, ChannelGoesQuiet
       DEF UnreadNext
  <1> QED
    BY <1>1, <1>2

(* As long as no two operations on a channel overlap and none fails, the   *)
(* badge is the number of messages listed beside it, through any sequence  *)
(* of posts, reads, marks and deletions, and a root counts its replies     *)
(* however they overlap (bump_unread, mark_read, mark_unread,              *)
(* drop_unread_for_message, soft_delete_message_in).                       *)
THEOREM ChannelUnreadSafety == UnreadSpec => []UnreadSafety
  <1>1. UnreadInv => UnreadSafety
    <2> SUFFICES ASSUME UnreadInv, ~overlapped, ~Busy PROVE row.unread = Truth
      BY DEF UnreadInv, UnreadSafety, BadgeIsRightUnlessOverlapped
    <2>1. row.unread = Cardinality(Since(row.readAt))
      BY DEF Busy, UnreadInv, AloneOK, CountAlone
    <2> QED
      BY <2>1 DEF Truth, UnreadSince, Since
  <1> QED
    BY <1>1, ChannelUnreadInit, ChannelUnreadStep, PTL DEF UnreadSpec

-----------------------------------------------------------------------------
(* ResumeCursor. *)

(* No id is ahead of the stream, which holds its newest entries. *)
ResumeTypes ==
    /\ TypeOK
    /\ held \in [Publisher -> 0 .. last] /\ \A x \in DOMAIN bus : bus[x] <= last
    /\ resume <= last /\ backlog \subseteq 1 .. last /\ replayed <= last
    /\ fetched \subseteq 1 .. last /\ \A i \in log : \A j \in i .. last : j \in log
    /\ \A x \in DOMAIN out : out[x].id <= last /\ (out[x].kind = "event" => out[x].id # 0)

(* What a replay that was not refused is about to read is all there. *)
LogOK ==
    gw = "probed" /\ excuses \cap {"emptied", "trimmed"} = {} =>
        \A j \in resume + 1 .. last : j \in log

(* As long as nothing was reordered, events are published in the order of  *)
(* their ids.                                                              *)
BusOK ==
    /\ consuming
    /\ \A x, y \in DOMAIN bus : x < y => bus[x] < bus[y]
    /\ \A p \in Publisher : held[p] # 0 =>
           /\ \A x \in DOMAIN bus : bus[x] < held[p]
           /\ \A q \in Publisher \ {p} : held[q] # held[p]

(* The events the gateway has taken from the channel, and those the        *)
(* browser has or will have before frame x of its connection.              *)
Fanned == {j \in 1 .. last : /\ \A x \in DOMAIN bus : bus[x] # j
                             /\ \A p \in Publisher : held[p] # j}
Carries(f, j) == f.kind = "refetch" \/ (f.kind = "event" /\ f.id = j)
Before(x, j) == ~loaded \/ Has(j) \/ \E y \in 1 .. x - 1 : Carries(out[y], j)
Sent(j) == Before(Len(out) + 1, j)

(* The frames: none leaves out what the browser needs before it, and a     *)
(* position that ends a replay is not behind it.                           *)
FrameOK(x) ==
    /\ out[x].kind = "event" => \A j \in 1 .. out[x].id - 1 : Before(x, j)
    /\ out[x].kind = "sync" =>
           /\ \A j \in 1 .. out[x].id : Before(x, j)
           /\ out[x].id # 0 => /\ cursor <= out[x].id
                               /\ \A y \in 1 .. x - 1 : out[y].id <= out[x].id
FramesOK == \A x \in DOMAIN out : FrameOK(x)

(* The handler: how far the browser is when its replay begins, and what is *)
(* sent when it ends.                                                      *)
Front == IF replayed = 0 THEN resume ELSE replayed
ReplayOK ==
    /\ resume <= cursor
    /\ gw \in {"off", "fresh", "joined", "tail", "probed"} => out = <<>>
    /\ gw \in {"fresh", "joined", "tail", "probed"} => cursor = resume
    /\ gw = "tail" => resume = 0
    /\ gw \in {"tail", "sending"} => \A j \in 1 .. replayed : Sent(j)
    /\ gw \in {"tail", "live"} => \A j \in Fanned : Sent(j)
    /\ gw # "sending" => backlog = {}
    /\ gw = "sending" =>
           /\ \A j \in Fanned : j \in backlog \/ Sent(j)
           /\ \A i \in backlog : i > Front /\ \A j \in 1 .. i - 1 : j \in backlog \/ Sent(j)
           /\ cursor <= Front /\ \A x \in DOMAIN out : out[x].id <= Front

(* The browser. *)
ClientOK ==
    /\ CursorMeansProcessed /\ AppliedOnce
    /\ \A i \in Id : i > cursor => applied[i] = 0

ResumeInv ==
    /\ ResumeTypes /\ LogOK
    /\ excuses = {} => BusOK /\ FramesOK /\ ReplayOK /\ ClientOK

(* What Append and Tail do to a sequence. *)
LEMMA ResumeAppend ==
    ASSUME NEW S, NEW s \in Seq(S), NEW e \in S
    PROVE  /\ Append(s, e) \in Seq(S) /\ Len(Append(s, e)) = Len(s) + 1 /\ Len(s) \in Nat
           /\ DOMAIN s = 1 .. Len(s) /\ DOMAIN Append(s, e) = 1 .. Len(s) + 1
           /\ \A y \in 1 .. Len(s) : Append(s, e)[y] = s[y]
           /\ Append(s, e)[Len(s) + 1] = e
  OBVIOUS

LEMMA ResumeTail ==
    ASSUME NEW S, NEW s \in Seq(S), s # <<>>
    PROVE  /\ Tail(s) \in Seq(S) /\ Len(Tail(s)) = Len(s) - 1 /\ Len(s) \in Nat \ {0}
           /\ DOMAIN s = 1 .. Len(s) /\ DOMAIN Tail(s) = 1 .. Len(s) - 1
           /\ \A y \in 1 .. Len(s) - 1 : Tail(s)[y] = s[y + 1] /\ y + 1 \in DOMAIN s
           /\ Head(s) = s[1] /\ Head(s) \in S /\ 1 \in DOMAIN s
  OBVIOUS

LEMMA ResumeElement ==
    ASSUME NEW S, NEW s \in Seq(S)
    PROVE  /\ \A x \in DOMAIN s : s[x] \in S
           /\ Len(s) \in Nat /\ DOMAIN s = 1 .. Len(s) /\ (s = <<>> <=> Len(s) = 0)
  OBVIOUS

LEMMA ResumeEmpty ==
    ASSUME NEW S
    PROVE  <<>> \in Seq(S) /\ DOMAIN <<>> = {} /\ Len(<<>>) = 0
  OBVIOUS

Frame == [kind : {"event", "sync", "refetch"}, id : 0 .. MaxId]

LEMMA ResumeFrames ==
    ASSUME ResumeTypes, NEW i \in 0 .. MaxId
    PROVE  /\ Event(i) \in Frame /\ Event(i).kind = "event" /\ Event(i).id = i
           /\ SyncComplete(i) \in Frame /\ SyncComplete(i).kind = "sync" /\ SyncComplete(i).id = i
           /\ RefetchRequired \in Frame /\ RefetchRequired.kind = "refetch"
           /\ RefetchRequired.id = 0
  BY BoundAssumption DEF Event, SyncComplete, RefetchRequired, Frame

LEMMA ResumeBegins == Init => ResumeInv
  <1> SUFFICES ASSUME Init PROVE ResumeInv
    OBVIOUS
  <1>1. ResumeTypes
    <2>1. applied \in [Id -> Nat] /\ held \in [Publisher -> 0 .. MaxId]
          /\ held \in [Publisher -> 0 .. last]
      BY BoundAssumption DEF Init
    <2>2. bus \in Seq(Id) /\ out \in Seq(Frame) /\ DOMAIN bus = {} /\ DOMAIN out = {}
      BY DEF Init
    <2>3. consuming \in BOOLEAN /\ loaded \in BOOLEAN
      BY DEF Init
    <2> QED
      BY <2>1, <2>2, <2>3, BoundAssumption DEF Init, ResumeTypes, TypeOK, Frame
  <1>2. LogOK
    BY DEF Init, LogOK
  <1>3. BusOK /\ FramesOK
    BY DEF Init, BusOK, FramesOK
  <1>4. ReplayOK
    BY DEF Init, ReplayOK
  <1>5. ClientOK
    BY DEF Init, ClientOK, CursorMeansProcessed, AppliedOnce
  <1> QED
    BY <1>1, <1>2, <1>3, <1>4, <1>5 DEF ResumeInv

-----------------------------------------------------------------------------
(* Every id is one of the stream's. *)

LEMMA ResumeTypesOut ==
    ASSUME ResumeTypes, NEW f \in Frame, f.id <= last, f.kind = "event" => f.id # 0,
           out' = Append(out, f), last' = last
    PROVE  /\ out' \in Seq(Frame)
           /\ \A x \in DOMAIN out' : out'[x].id <= last' /\ (out'[x].kind = "event" => out'[x].id # 0)
  <1>1. out \in Seq(Frame)
    BY DEF ResumeTypes, TypeOK, Frame
  <1>2. /\ Append(out, f) \in Seq(Frame) /\ DOMAIN Append(out, f) = 1 .. Len(out) + 1
        /\ Len(out) \in Nat /\ DOMAIN out = 1 .. Len(out)
        /\ \A y \in 1 .. Len(out) : Append(out, f)[y] = out[y]
        /\ Append(out, f)[Len(out) + 1] = f
    BY <1>1, ResumeAppend
  <1>3. ASSUME NEW x \in DOMAIN out'
        PROVE  out'[x].id <= last' /\ (out'[x].kind = "event" => out'[x].id # 0)
    <2>1. CASE x \in 1 .. Len(out)
      BY <1>2, <2>1 DEF ResumeTypes
    <2>2. CASE x = Len(out) + 1
      BY <1>2, <2>2
    <2> QED
      BY <1>2, <1>3, <2>1, <2>2
  <1> QED
    BY <1>2, <1>3

LEMMA ResumeTypesStep ==
    ASSUME ResumeTypes, [Next]_vars
    PROVE  ResumeTypes'
  <1> USE BoundAssumption DEF Id
  <1>0. /\ last \in 0 .. MaxId /\ log \subseteq 1 .. last /\ bus \in Seq(1 .. MaxId)
        /\ held \in [Publisher -> 0 .. last] /\ \A x \in DOMAIN bus : bus[x] <= last
        /\ out \in Seq(Frame) /\ cursor \in 0 .. last /\ resume \in 0 .. MaxId
        /\ replayed \in 0 .. MaxId /\ applied \in [1 .. MaxId -> Nat] /\ resume <= last
        /\ \A x \in DOMAIN out : out[x].id <= last /\ (out[x].kind = "event" => out[x].id # 0)
    BY DEF ResumeTypes, TypeOK, Frame
  <1>1. ASSUME NEW p \in Publisher, XAdd(p) PROVE ResumeTypes'
    <2>1. /\ last' = last + 1 /\ last' \in 0 .. MaxId /\ log' = log \cup {last + 1}
          /\ held' = [held EXCEPT ![p] = last + 1]
          /\ UNCHANGED <<consuming, bus, gw, resume, backlog, replayed, out, cursor, applied,
                         fetched, loaded, excuses>>
      BY <1>0, <1>1 DEF XAdd, busVars, gwVars, browserVars
    <2>2. held' \in [Publisher -> 0 .. last'] /\ held' \in [Publisher -> 0 .. MaxId]
      BY <1>0, <2>1
    <2>3. log' \subseteq 1 .. last' /\ cursor' \in 0 .. last' /\ fetched' \subseteq 1 .. last'
          /\ backlog' \subseteq 1 .. last'
      BY <1>0, <2>1 DEF ResumeTypes
    <2>4. /\ \A x \in DOMAIN out' : out'[x].id <= last' /\ (out'[x].kind = "event" => out'[x].id # 0)
          /\ \A x \in DOMAIN bus' : bus'[x] <= last'
      <3>1. \A x \in DOMAIN out : out[x].id \in Int
        <4>1. \A x \in DOMAIN out : out[x] \in Frame
          BY <1>0, ResumeElement
        <4> QED
          BY <4>1 DEF Frame
      <3>2. \A x \in DOMAIN bus : bus[x] \in Int
        BY <1>0, ResumeElement
      <3> QED
        BY <1>0, <2>1, <3>1, <3>2
    <2>5. resume' <= last' /\ replayed' <= last'
      BY <1>0, <2>1 DEF ResumeTypes
    <2>6. \A i \in log' : \A j \in i .. last' : j \in log'
      BY <1>0, <2>1 DEF ResumeTypes
    <2> QED
      BY <2>1, <2>2, <2>3, <2>4, <2>5, <2>6 DEF ResumeTypes, TypeOK
  <1>2. ASSUME NEW p \in Publisher, Publish(p) PROVE ResumeTypes'
    <2>1. /\ held' = [held EXCEPT ![p] = 0] /\ held[p] \in 1 .. last
          /\ bus' = bus \/ bus' = Append(bus, held[p])
          /\ excuses' \subseteq excuses \cup {"reordered"}
          /\ UNCHANGED <<last, log, consuming, gw, resume, backlog, replayed, out, cursor, applied,
                         fetched, loaded>>
      BY <1>0, <1>2 DEF Publish, Excused, gwVars, browserVars
    <2>2. held' \in [Publisher -> 0 .. last'] /\ held' \in [Publisher -> 0 .. MaxId]
      BY <1>0, <2>1
    <2>3. bus' \in Seq(1 .. MaxId) /\ \A x \in DOMAIN bus' : bus'[x] <= last'
      <3>1. held[p] \in 1 .. MaxId
        BY <1>0, <2>1
      <3>2. CASE bus' = Append(bus, held[p])
        <4>1. /\ Append(bus, held[p]) \in Seq(1 .. MaxId) /\ Len(bus) \in Nat
              /\ DOMAIN bus = 1 .. Len(bus) /\ DOMAIN Append(bus, held[p]) = 1 .. Len(bus) + 1
              /\ \A y \in 1 .. Len(bus) : Append(bus, held[p])[y] = bus[y]
              /\ Append(bus, held[p])[Len(bus) + 1] = held[p]
          BY <1>0, <3>1, ResumeAppend
        <4> QED
          BY <1>0, <2>1, <3>2, <4>1
      <3> QED
        BY <1>0, <2>1, <3>2
    <2>4. excuses' \subseteq Excuse
      BY <2>1 DEF ResumeTypes, TypeOK, Excuse
    <2> QED
      BY <2>1, <2>2, <2>3, <2>4 DEF ResumeTypes, TypeOK
  <1>3. ASSUME Trim PROVE ResumeTypes'
    <2>1. /\ UNCHANGED <<last, held, consuming, bus, gw, resume, backlog, replayed, out, cursor,
                         applied, fetched, loaded>>
          /\ excuses' \subseteq excuses \cup {"trimmed"}
          /\ \E oldest \in log : log' = {i \in log : i > oldest}
      BY <1>3 DEF Trim, Excused, busVars, gwVars, browserVars
    <2>2. log' \subseteq 1 .. last /\ \A i \in log' : \A j \in i .. last : j \in log'
      <3>1. PICK oldest \in log : log' = {i \in log : i > oldest}
        BY <2>1
      <3>2. ASSUME NEW i \in log', NEW j \in i .. last PROVE j \in log'
        <4>1. i \in log /\ i > oldest /\ i \in Int /\ oldest \in Int /\ j \in Int /\ j >= i
          BY <1>0, <3>1, <3>2
        <4>2. j \in log
          BY <4>1 DEF ResumeTypes
        <4> QED
          BY <3>1, <4>1, <4>2
      <3> QED
        BY <1>0, <3>1, <3>2
    <2>3. excuses' \subseteq Excuse
      BY <2>1 DEF ResumeTypes, TypeOK, Excuse
    <2> QED
      BY <2>1, <2>2, <2>3 DEF ResumeTypes, TypeOK
  <1>4. ASSUME FanOut PROVE ResumeTypes'
    <2>1. /\ bus # <<>> /\ bus' = Tail(bus)
          /\ UNCHANGED <<last, log, held, consuming, gw, resume, backlog, replayed, cursor,
                         applied, fetched, loaded>>
          /\ excuses' \subseteq excuses \cup {"overlap"}
          /\ out' = out \/ out' = Append(out, Event(Head(bus)))
      BY <1>4 DEF FanOut, Excused, streamVars, gwVars, browserVars
    <2>2. /\ bus' \in Seq(1 .. MaxId) /\ Head(bus) \in 1 .. MaxId /\ Head(bus) <= last
          /\ \A x \in DOMAIN bus' : bus'[x] <= last
      <3>1. /\ Tail(bus) \in Seq(1 .. MaxId) /\ DOMAIN Tail(bus) = 1 .. Len(bus) - 1
            /\ \A y \in 1 .. Len(bus) - 1 : Tail(bus)[y] = bus[y + 1] /\ y + 1 \in DOMAIN bus
            /\ Head(bus) = bus[1] /\ Head(bus) \in 1 .. MaxId /\ 1 \in DOMAIN bus
        BY <1>0, <2>1, ResumeTail
      <3> QED
        BY <1>0, <2>1, <3>1
    <2>3. /\ out' \in Seq(Frame)
          /\ \A x \in DOMAIN out' : out'[x].id <= last' /\ (out'[x].kind = "event" => out'[x].id # 0)
      <3>1. CASE out' = Append(out, Event(Head(bus)))
        <4>1. /\ Event(Head(bus)) \in Frame /\ Event(Head(bus)).id = Head(bus)
          BY <2>2, ResumeFrames
        <4> QED
          BY <2>1, <2>2, <3>1, <4>1, ResumeTypesOut
      <3> QED
        BY <1>0, <2>1, <3>1
    <2>4. excuses' \subseteq Excuse
      BY <2>1 DEF ResumeTypes, TypeOK, Excuse
    <2> QED
      BY <2>1, <2>2, <2>3, <2>4 DEF ResumeTypes, TypeOK, Frame
  <1>5. ASSUME ConsumerEnds \/ ConsumerRestarts PROVE ResumeTypes'
    <2>1. consuming' \in BOOLEAN /\ bus' \in Seq(1 .. MaxId) /\ (bus' = bus \/ DOMAIN bus' = {})
      <3>1. CASE ConsumerEnds
        <4>1. consuming' = FALSE /\ bus' = <<>>
          BY <3>1 DEF ConsumerEnds
        <4> QED
          BY <4>1, ResumeEmpty
      <3>2. CASE ConsumerRestarts
        <4>1. consuming' = TRUE /\ bus' = bus
          BY <3>2 DEF ConsumerRestarts
        <4> QED
          BY <1>0, <4>1
      <3> QED
        BY <1>5, <3>1, <3>2
    <2>2. /\ UNCHANGED <<last, log, held, gw, resume, backlog, replayed, out, cursor, applied,
                         fetched, loaded>>
          /\ excuses' \subseteq excuses \cup {"outage"}
      BY <1>5 DEF ConsumerEnds, ConsumerRestarts, Excused, streamVars, gwVars, browserVars
    <2>3. excuses' \subseteq Excuse
      BY <2>2 DEF ResumeTypes, TypeOK, Excuse
    <2> QED
      BY <1>0, <2>1, <2>2, <2>3 DEF ResumeTypes, TypeOK
  <1>6. ASSUME DoConnect \/ JoinChannels \/ Drop PROVE ResumeTypes'
    <2>1. /\ UNCHANGED <<last, log, held, consuming, bus, replayed, cursor, applied, fetched,
                         loaded>>
          /\ resume' \in {resume, cursor} /\ gw' \in {"fresh", "joined", "off"}
          /\ excuses' \subseteq excuses \cup {"unpositioned"}
          /\ out' = out \/ out' = <<>>
          /\ backlog' = backlog \/ backlog' = {}
      BY <1>6 DEF DoConnect, JoinChannels, Drop, Excused, streamVars, busVars, browserVars
    <2>2. /\ out' \in Seq(Frame)
          /\ \A x \in DOMAIN out' : out'[x].id <= last' /\ (out'[x].kind = "event" => out'[x].id # 0)
      <3>1. CASE out' = <<>>
        BY <3>1, ResumeEmpty
      <3>2. CASE out' = out
        BY <1>0, <2>1, <3>2
      <3> QED
        BY <2>1, <3>1, <3>2
    <2>3. excuses' \subseteq Excuse
      BY <2>1 DEF ResumeTypes, TypeOK, Excuse
    <2>4. resume' \in 0 .. MaxId /\ resume' <= last'
      BY <1>0, <2>1
    <2>5. backlog' \subseteq 1 .. last /\ backlog' \subseteq Id
      BY <2>1 DEF ResumeTypes, TypeOK
    <2> QED
      BY <2>1, <2>2, <2>3, <2>4, <2>5 DEF ResumeTypes, TypeOK, Frame
  <1>7. ASSUME ReadTail PROVE ResumeTypes'
    <2>1. /\ UNCHANGED <<last, log, held, consuming, bus, resume, backlog, out, cursor, applied,
                         fetched, loaded>>
          /\ gw' = "tail" /\ excuses' \subseteq excuses \cup {"unpositioned"}
          /\ replayed' \in {Newest, 0}
      BY <1>7 DEF ReadTail, Excused, streamVars, busVars, browserVars
    <2>2. Newest \in 0 .. last
      <3>1. CASE log = {}
        BY <1>0, <3>1 DEF Newest
      <3>2. CASE log # {}
        <4>1. \E i \in log : \A j \in log : j <= i
          <5>1. last \in log
            <6>1. PICK i \in log : TRUE
              BY <3>2
            <6>2. last \in i .. last
              BY <1>0, <6>1
            <6> QED
              BY <6>1, <6>2 DEF ResumeTypes
          <5> QED
            BY <1>0, <5>1
        <4>2. Newest \in log
          BY <3>2, <4>1 DEF Newest
        <4> QED
          BY <1>0, <4>2
      <3> QED
        BY <3>1, <3>2
    <2>3. excuses' \subseteq Excuse
      BY <2>1 DEF ResumeTypes, TypeOK, Excuse
    <2>4. replayed' \in 0 .. MaxId /\ replayed' <= last'
      BY <1>0, <2>1, <2>2
    <2> QED
      BY <2>1, <2>3, <2>4 DEF ResumeTypes, TypeOK
  <1>8. ASSUME Refuse, UNCHANGED <<streamVars, busVars, resume, browserVars>>
        PROVE  ResumeTypes'
    <2>1. /\ UNCHANGED <<last, log, held, consuming, bus, resume, backlog, replayed, cursor,
                         applied, fetched, loaded, excuses>>
          /\ gw' = "live" /\ out' = Append(out, RefetchRequired)
      BY <1>8 DEF Refuse, streamVars, busVars, browserVars
    <2>2. /\ out' \in Seq(Frame)
          /\ \A x \in DOMAIN out' : out'[x].id <= last' /\ (out'[x].kind = "event" => out'[x].id # 0)
      <3>1. /\ RefetchRequired \in Frame /\ RefetchRequired.id = 0 /\ 0 <= last
            /\ RefetchRequired.kind = "refetch"
        BY <1>0, ResumeFrames
      <3> QED
        BY <2>1, <3>1, ResumeTypesOut
    <2> QED
      BY <2>1, <2>2 DEF ResumeTypes, TypeOK, Frame
  <1>9. ASSUME Probe \/ ReadBacklog \/ ReplayError PROVE ResumeTypes'
    <2>1. CASE Refuse
      BY <1>8, <1>9, <2>1 DEF Probe, ReadBacklog, ReplayError
    <2>2. CASE ~Refuse
      <3>1. /\ UNCHANGED <<last, log, held, consuming, bus, resume, out, cursor, applied, fetched,
                           loaded>>
            /\ gw' \in {"probed", "sending"} /\ replayed' \in {replayed, 0}
            /\ backlog' = backlog \/ backlog' = Missed
            /\ excuses' \subseteq excuses \cup {"emptied"}
        BY <1>9, <2>2 DEF Probe, ReadBacklog, ReplayError, Excused, streamVars, busVars,
           browserVars
      <3>2. excuses' \subseteq Excuse
        BY <3>1 DEF ResumeTypes, TypeOK, Excuse
      <3>3. Missed \subseteq 1 .. last
        BY <1>0 DEF Missed
      <3>4. backlog' \subseteq 1 .. last /\ backlog' \subseteq Id
        <4>1. backlog \subseteq 1 .. last /\ 1 .. last \subseteq 1 .. MaxId
          BY <1>0 DEF ResumeTypes
        <4> QED
          BY <3>1, <3>3, <4>1
      <3>5. replayed' \in 0 .. MaxId /\ replayed' <= last
        BY <1>0, <3>1 DEF ResumeTypes
      <3> QED
        BY <3>1, <3>2, <3>4, <3>5 DEF ResumeTypes, TypeOK
    <2> QED
      BY <2>1, <2>2
  <1>10. ASSUME ReplayOne PROVE ResumeTypes'
    <2>1. PICK i \in backlog :
              /\ out' = IF i \in Ring THEN out ELSE Append(out, Event(i))
              /\ replayed' = i /\ backlog' = backlog \ {i}
              /\ UNCHANGED <<last, log, held, consuming, bus, gw, resume, cursor, applied, fetched,
                             loaded, excuses>>
      BY <1>10 DEF ReplayOne, streamVars, busVars, browserVars
    <2>2. i \in 1 .. last /\ i \in 0 .. MaxId
      BY <1>0, <2>1 DEF ResumeTypes
    <2>3. Event(i) \in Frame /\ Event(i).id = i
      BY <2>2, ResumeFrames
    <2>4. /\ out' \in Seq(Frame)
          /\ \A x \in DOMAIN out' : out'[x].id <= last' /\ (out'[x].kind = "event" => out'[x].id # 0)
      BY <1>0, <2>1, <2>2, <2>3, ResumeTypesOut
    <2>5. replayed' \in 0 .. MaxId /\ replayed' <= last
      BY <1>0, <2>1, <2>2
    <2>6. backlog' \subseteq Id /\ backlog' \subseteq 1 .. last
      BY <2>1 DEF ResumeTypes, TypeOK
    <2> QED
      BY <2>1, <2>4, <2>5, <2>6 DEF ResumeTypes, TypeOK, Frame
  <1>11. ASSUME ReplayDone PROVE ResumeTypes'
    <2>1. /\ UNCHANGED <<last, log, held, consuming, bus, resume, backlog, replayed, cursor,
                         applied, fetched, loaded, excuses>>
          /\ gw' = "live" /\ out' = Append(out, SyncComplete(replayed))
      BY <1>11 DEF ReplayDone, streamVars, busVars, browserVars
    <2>2. /\ SyncComplete(replayed) \in Frame /\ SyncComplete(replayed).id = replayed
          /\ SyncComplete(replayed).kind = "sync" /\ replayed <= last
      BY <1>0, ResumeFrames DEF ResumeTypes
    <2>3. /\ out' \in Seq(Frame)
          /\ \A x \in DOMAIN out' : out'[x].id <= last' /\ (out'[x].kind = "event" => out'[x].id # 0)
      BY <2>1, <2>2, ResumeTypesOut
    <2> QED
      BY <2>1, <2>3 DEF ResumeTypes, TypeOK, Frame
  <1>12. ASSUME LoadPage PROVE ResumeTypes'
    <2>1. /\ UNCHANGED <<last, log, held, consuming, bus, gw, resume, backlog, replayed, out, cursor,
                         applied, excuses>>
          /\ loaded' = TRUE /\ fetched' = 1 .. last
      BY <1>12 DEF LoadPage, streamVars, busVars, gwVars
    <2>2. loaded' \in BOOLEAN
      BY <2>1
    <2>3. fetched' \subseteq 1 .. last' /\ fetched' \subseteq Id
      BY <1>0, <2>1
    <2> QED
      BY <2>1, <2>2, <2>3 DEF ResumeTypes, TypeOK
  <1>13. ASSUME Receive PROVE ResumeTypes'
    <2>1. /\ UNCHANGED <<last, log, held, consuming, bus, gw, resume, backlog, replayed, loaded,
                         excuses>>
          /\ out # <<>> /\ out' = Tail(out)
      BY <1>13 DEF Receive, ReceiveEvent, ReceiveSync, ReceiveRefetch, streamVars,
         busVars, gwVars
    <2>2. /\ out' \in Seq(Frame) /\ Head(out) \in Frame /\ Head(out).id <= last
          /\ Head(out).kind = "event" => Head(out).id # 0
          /\ \A x \in DOMAIN out' : out'[x].id <= last /\ (out'[x].kind = "event" => out'[x].id # 0)
      BY <1>0, <2>1, ResumeTail
    <2>3. fetched' \subseteq 1 .. last
      BY <1>13 DEF Receive, ReceiveEvent, ReceiveSync, ReceiveRefetch, ResumeTypes
    <2>4. cursor' \in 0 .. last
      BY <1>0, <1>13, <2>2 DEF Receive, ReceiveEvent, ReceiveSync, ReceiveRefetch, Frame
    <2>5. applied' \in [1 .. MaxId -> Nat]
      <3>0. Head(out).kind = "event" => Head(out).id \in 1 .. MaxId
        BY <1>0, <2>2 DEF Frame
      <3>1. applied' = applied \/ \E i \in 1 .. MaxId : applied' = [applied EXCEPT ![i] = @ + 1]
        BY <1>13, <3>0 DEF Receive, ReceiveEvent, ReceiveSync, ReceiveRefetch
      <3>2. ASSUME NEW i \in 1 .. MaxId
            PROVE  [applied EXCEPT ![i] = @ + 1] \in [1 .. MaxId -> Nat]
        BY <1>0
      <3> QED
        BY <1>0, <3>1, <3>2
    <2>6. fetched' \subseteq Id
      BY <1>0, <2>3
    <2> QED
      BY <2>1, <2>2, <2>3, <2>4, <2>5, <2>6 DEF ResumeTypes, TypeOK, Frame
  <1>14. CASE UNCHANGED vars
    BY <1>14 DEF vars, ResumeTypes, TypeOK
  <1> QED
    BY <1>1, <1>2, <1>3, <1>4, <1>5, <1>6, <1>7, <1>9, <1>10, <1>11, <1>12, <1>13, <1>14
       DEF Next, Gateway

-----------------------------------------------------------------------------
(* The stream and the channel. *)

(* A circumstance once recorded stays recorded. *)
LEMMA ResumeExcuses ==
    ASSUME [Next]_vars PROVE excuses \subseteq excuses'
  <1>1. ASSUME NEW p \in Publisher, XAdd(p) \/ Publish(p) PROVE excuses \subseteq excuses'
    BY <1>1 DEF XAdd, Publish, Excused
  <1>2. CASE Trim \/ FanOut \/ ConsumerEnds \/ ConsumerRestarts
    BY <1>2 DEF Trim, FanOut, ConsumerEnds, ConsumerRestarts, Excused
  <1>3. CASE DoConnect \/ JoinChannels \/ ReadTail \/ Drop
    BY <1>3 DEF DoConnect, JoinChannels, ReadTail, Drop, Excused
  <1>4. CASE Probe \/ ReadBacklog \/ ReplayError \/ ReplayOne \/ ReplayDone
    BY <1>4 DEF Probe, ReadBacklog, ReplayError, ReplayOne, ReplayDone, Refuse, Excused
  <1>5. CASE LoadPage \/ Receive \/ UNCHANGED vars
    BY <1>5 DEF LoadPage, Receive, vars
  <1> QED
    BY <1>1, <1>2, <1>3, <1>4, <1>5 DEF Next, Gateway

LEMMA ResumeLogStep ==
    ASSUME ResumeTypes, LogOK, [Next]_vars
    PROVE  LogOK'
  <1> SUFFICES ASSUME gw' = "probed", excuses' \cap {"emptied", "trimmed"} = {},
                      NEW j \in resume' + 1 .. last'
               PROVE  j \in log'
    BY DEF LogOK
  <1>0. /\ last \in Nat /\ resume \in Nat /\ log \subseteq 1 .. last
        /\ \A i \in log : \A k \in i .. last : k \in log
        /\ excuses \cap {"emptied", "trimmed"} = {}
    BY ResumeExcuses, BoundAssumption DEF ResumeTypes, TypeOK
  <1>1. gw = "probed" => \A k \in resume + 1 .. last : k \in log
    BY <1>0 DEF LogOK
  <1>2. ASSUME NEW p \in Publisher, XAdd(p) PROVE j \in log'
    <2>1. last' = last + 1 /\ log' = log \cup {last + 1} /\ resume' = resume /\ gw' = gw
      BY <1>2 DEF XAdd, gwVars
    <2> QED
      BY <1>0, <1>1, <2>1
  <1>3. CASE Trim
    <2>1. /\ last' = last /\ resume' = resume /\ gw' = gw
          /\ \E oldest \in log : /\ log' = {i \in log : i > oldest}
                                 /\ Excused("trimmed", gw = "probed" /\ oldest > resume)
      BY <1>3 DEF Trim, gwVars
    <2>2. PICK oldest \in log : /\ log' = {i \in log : i > oldest}
                                /\ Excused("trimmed", gw = "probed" /\ oldest > resume)
      BY <2>1
    <2>3. ~(oldest > resume)
      BY <2>1, <2>2 DEF Excused
    <2>4. j \in log /\ j > resume /\ j \in Int /\ oldest \in Int
      BY <1>0, <1>1, <2>1, <2>2
    <2> QED
      BY <1>0, <2>2, <2>3, <2>4
  <1>4. CASE Probe
    <2>1. /\ ~(log # {} /\ \A i \in log : resume < i)
          /\ Excused("emptied", log = {} /\ resume < last)
          /\ last' = last /\ log' = log /\ resume' = resume
      BY <1>4 DEF Probe, Refuse, streamVars
    <2>2. CASE log = {}
      <3>1. ~(resume < last)
        BY <2>1, <2>2 DEF Excused
      <3> QED
        BY <1>0, <2>1, <3>1
    <2>3. CASE log # {}
      <3>1. PICK i \in log : ~(resume < i)
        BY <2>1, <2>3
      <3>2. j \in i .. last
        BY <1>0, <2>1, <3>1
      <3> QED
        BY <1>0, <2>1, <3>2
    <2> QED
      BY <2>2, <2>3
  <1>5. ASSUME UNCHANGED <<last, log, resume, gw>> PROVE j \in log'
    BY <1>1, <1>5
  <1>6. ASSUME NEW p \in Publisher, Publish(p) PROVE j \in log'
    BY <1>5, <1>6 DEF Publish, gwVars
  <1>7. CASE FanOut \/ ConsumerEnds \/ ConsumerRestarts \/ ReplayOne
    BY <1>5, <1>7 DEF FanOut, ConsumerEnds, ConsumerRestarts, ReplayOne, streamVars, gwVars
  <1>8. CASE LoadPage \/ Receive \/ UNCHANGED vars
    BY <1>5, <1>8 DEF LoadPage, Receive, vars, streamVars, gwVars
  <1>9. CASE DoConnect \/ JoinChannels \/ ReadTail \/ ReadBacklog \/ ReplayError \/ ReplayDone \/ Drop
    BY <1>9 DEF DoConnect, JoinChannels, ReadTail, ReadBacklog, ReplayError, ReplayDone,
       Drop, Refuse
  <1> QED
    BY <1>2, <1>3, <1>4, <1>6, <1>7, <1>8, <1>9 DEF Next, Gateway

(* While nothing is recorded the channel carries ids in order, and the     *)
(* gateway takes them in that order.                                       *)
LEMMA ResumeBusStep ==
    ASSUME ResumeTypes, BusOK, [Next]_vars, excuses' = {}
    PROVE  /\ BusOK'
           /\ ~FanOut => Fanned' \subseteq Fanned
           /\ FanOut => /\ Fanned' \subseteq Fanned \cup {Head(bus)}
                        /\ \A j \in 1 .. Head(bus) - 1 : j \in Fanned
                        /\ gw \in {"off", "fresh", "live"}
  <1>0. /\ last \in Nat /\ bus \in Seq(1 .. MaxId) /\ held \in [Publisher -> 0 .. last]
        /\ \A x \in DOMAIN bus : bus[x] <= last /\ bus[x] \in 1 .. MaxId
        /\ gw \in {"off", "fresh", "joined", "tail", "probed", "sending", "live"}
    <2>1. bus \in Seq(1 .. MaxId)
      BY DEF ResumeTypes, TypeOK, Id
    <2>2. \A x \in DOMAIN bus : bus[x] \in 1 .. MaxId
      BY <2>1, ResumeElement
    <2> QED
      BY <2>1, <2>2, BoundAssumption DEF ResumeTypes, TypeOK
  <1>1. /\ consuming /\ \A x, y \in DOMAIN bus : x < y => bus[x] < bus[y]
        /\ \A p \in Publisher : held[p] # 0 => \A x \in DOMAIN bus : bus[x] < held[p]
        /\ \A p \in Publisher : held[p] # 0 => \A q \in Publisher \ {p} : held[q] # held[p]
    BY DEF BusOK
  <1>2. ASSUME NEW p \in Publisher, XAdd(p)
        PROVE  BusOK' /\ Fanned' \subseteq Fanned /\ ~FanOut
    <2>1. /\ last' = last + 1 /\ held' = [held EXCEPT ![p] = last + 1] /\ held[p] = 0
          /\ bus' = bus /\ consuming' = consuming
      BY <1>2 DEF XAdd, busVars
    <2>2. held'[p] = last + 1 /\ \A q \in Publisher \ {p} : held'[q] = held[q]
      BY <1>0, <2>1
    <2>3. \A q \in Publisher : held[q] \in 0 .. last
      BY <1>0
    <2>4. ASSUME NEW r \in Publisher, held'[r] # 0
          PROVE  /\ \A x \in DOMAIN bus : bus[x] < held'[r]
                 /\ \A q \in Publisher \ {r} : held'[q] # held'[r]
      <3>1. CASE r = p
        BY <1>0, <2>2, <2>3, <3>1
      <3>2. CASE r # p
        BY <1>0, <1>1, <2>2, <2>3, <2>4, <3>2
      <3> QED
        BY <3>1, <3>2
    <2>5. BusOK'
      BY <1>1, <2>1, <2>4 DEF BusOK
    <2>6. ASSUME NEW j \in Fanned' PROVE j \in Fanned
      <3>1. j \in 1 .. last + 1 /\ (\A x \in DOMAIN bus : bus[x] # j) /\ \A q \in Publisher : held'[q] # j
        BY <2>1, <2>6 DEF Fanned
      <3>2. j # 0 /\ j # last + 1
        BY <1>0, <2>2, <3>1
      <3>3. \A q \in Publisher : held[q] # j
        BY <2>1, <2>2, <3>1, <3>2
      <3> QED
        BY <1>0, <3>1, <3>2, <3>3 DEF Fanned
    <2>7. ~FanOut
      BY <1>0, <2>1 DEF FanOut, streamVars
    <2> QED
      BY <2>5, <2>6, <2>7
  <1>3. ASSUME NEW p \in Publisher, Publish(p)
        PROVE  BusOK' /\ Fanned' \subseteq Fanned /\ ~FanOut
    <2>1. /\ last' = last /\ held' = [held EXCEPT ![p] = 0] /\ held[p] # 0
          /\ bus' = Append(bus, held[p]) /\ consuming' = consuming /\ ~Overtakes(p)
      BY <1>1, <1>3 DEF Publish, Excused
    <2>2. held'[p] = 0 /\ \A q \in Publisher \ {p} : held'[q] = held[q]
      BY <1>0, <2>1
    <2>3. /\ \A q \in Publisher : held[q] \in Nat
          /\ held[p] \in 1 .. MaxId
      BY <1>0, <2>1, BoundAssumption DEF ResumeTypes, TypeOK
    <2>4. /\ Len(bus) \in Nat /\ DOMAIN bus = 1 .. Len(bus) /\ DOMAIN bus' = 1 .. Len(bus) + 1
          /\ \A y \in 1 .. Len(bus) : bus'[y] = bus[y]
          /\ bus'[Len(bus) + 1] = held[p]
      BY <1>0, <2>1, <2>3, ResumeAppend
    <2>5. ASSUME NEW r \in Publisher, held'[r] # 0
          PROVE  /\ \A x \in DOMAIN bus' : bus'[x] < held'[r]
                 /\ \A q \in Publisher \ {r} : held'[q] # held'[r]
      <3>1. r # p /\ held'[r] = held[r] /\ held[r] # held[p]
        BY <1>1, <2>1, <2>2, <2>5
      <3>2. held[p] < held[r]
        BY <2>1, <2>2, <2>3, <2>5, <3>1 DEF Overtakes
      <3>3. \A x \in DOMAIN bus' : bus'[x] < held'[r]
        BY <1>0, <1>1, <2>2, <2>4, <2>5, <3>1, <3>2
      <3>4. \A q \in Publisher \ {r} : held'[q] # held'[r]
        BY <1>1, <2>2, <2>5, <3>1
      <3> QED
        BY <3>3, <3>4
    <2>6. \A x, y \in DOMAIN bus' : x < y => bus'[x] < bus'[y]
      <3> SUFFICES ASSUME NEW x \in DOMAIN bus', NEW y \in DOMAIN bus', x < y
                   PROVE  bus'[x] < bus'[y]
        OBVIOUS
      <3>1. x \in 1 .. Len(bus) /\ bus'[x] = bus[x]
        BY <2>4
      <3>2. CASE y \in 1 .. Len(bus)
        BY <1>1, <2>4, <3>1, <3>2
      <3>3. CASE y = Len(bus) + 1
        BY <1>1, <2>1, <2>4, <3>1, <3>3
      <3> QED
        BY <2>4, <3>2, <3>3
    <2>7. BusOK'
      BY <1>1, <2>1, <2>5, <2>6 DEF BusOK
    <2>8. ASSUME NEW j \in Fanned' PROVE j \in Fanned
      <3>1. j \in 1 .. last /\ (\A x \in DOMAIN bus' : bus'[x] # j) /\ \A q \in Publisher : held'[q] # j
        BY <2>1, <2>8 DEF Fanned
      <3>2. Len(bus) + 1 \in DOMAIN bus' /\ \A x \in DOMAIN bus : x \in DOMAIN bus' /\ bus'[x] = bus[x]
        BY <2>4
      <3>3. held[p] # j /\ \A x \in DOMAIN bus : bus[x] # j
        BY <2>4, <3>1, <3>2
      <3>4. \A q \in Publisher : held[q] # j
        BY <2>2, <3>1, <3>3
      <3> QED
        BY <3>1, <3>3, <3>4 DEF Fanned
    <2>9. ~FanOut
      <3>1. FanOut => held' = held
        BY DEF FanOut, streamVars
      <3> QED
        BY <2>1, <2>2, <3>1
    <2> QED
      BY <2>7, <2>8, <2>9
  <1>4. CASE FanOut
    <2>1. /\ last' = last /\ held' = held /\ bus # <<>> /\ bus' = Tail(bus) /\ consuming' = consuming
      BY <1>4 DEF FanOut, streamVars
    <2>2. /\ Len(bus) \in Nat \ {0} /\ DOMAIN bus = 1 .. Len(bus) /\ DOMAIN bus' = 1 .. Len(bus) - 1
          /\ \A y \in 1 .. Len(bus) - 1 : bus'[y] = bus[y + 1] /\ y + 1 \in DOMAIN bus
          /\ Head(bus) = bus[1] /\ 1 \in DOMAIN bus /\ Head(bus) \in 1 .. MaxId /\ Head(bus) <= last
      BY <1>0, <2>1, ResumeTail
    <2>3. gw \in {"off", "fresh", "live"}
      <3>1. gw \notin {"off", "fresh"} => Excused("overlap", gw # "live")
        BY <1>4 DEF FanOut
      <3>2. CASE gw \notin {"off", "fresh"}
        BY <3>1, <3>2 DEF Excused
      <3> QED
        BY <3>2
    <2>4. BusOK'
      <3>1. ASSUME NEW x \in DOMAIN bus', NEW y \in DOMAIN bus', x < y
            PROVE  bus'[x] < bus'[y]
        <4>1. /\ x + 1 \in DOMAIN bus /\ y + 1 \in DOMAIN bus /\ x + 1 < y + 1
              /\ bus'[x] = bus[x + 1] /\ bus'[y] = bus[y + 1]
          BY <2>2, <3>1
        <4> QED
          BY <1>1, <4>1
      <3>2. ASSUME NEW r \in Publisher, held[r] # 0, NEW x \in DOMAIN bus'
            PROVE  bus'[x] < held[r]
        <4>1. x + 1 \in DOMAIN bus /\ bus'[x] = bus[x + 1]
          BY <2>2, <3>2
        <4> QED
          BY <1>1, <3>2, <4>1
      <3> QED
        BY <1>1, <2>1, <3>1, <3>2 DEF BusOK
    <2>5. ASSUME NEW j \in 1 .. Head(bus) - 1 PROVE j \in Fanned
      <3>1. \A x \in DOMAIN bus : bus[x] >= Head(bus)
        <4> SUFFICES ASSUME NEW x \in DOMAIN bus PROVE bus[x] >= Head(bus)
          OBVIOUS
        <4>1. CASE x = 1
          BY <1>0, <2>2, <4>1
        <4>2. CASE 1 < x
          BY <1>0, <1>1, <2>2, <4>2
        <4> QED
          BY <2>2, <4>1, <4>2
      <3>2. \A r \in Publisher : held[r] = 0 \/ held[r] > Head(bus)
        <4> SUFFICES ASSUME NEW r \in Publisher, held[r] # 0 PROVE held[r] > Head(bus)
          OBVIOUS
        <4>1. held[r] \in Nat
          BY <1>0
        <4>2. bus[1] < held[r]
          BY <1>1, <2>2
        <4> QED
          BY <2>2, <4>1, <4>2
      <3>3. j \in 1 .. last /\ j < Head(bus) /\ j # 0
        BY <1>0, <2>2
      <3>4. \A x \in DOMAIN bus : bus[x] # j
        BY <1>0, <2>2, <3>1, <3>3
      <3>5. \A r \in Publisher : held[r] # j
        <4>1. \A r \in Publisher : held[r] \in Nat
          BY <1>0
        <4> QED
          BY <2>2, <3>2, <3>3, <4>1
      <3> QED
        BY <3>3, <3>4, <3>5 DEF Fanned
    <2>6. ASSUME NEW j \in Fanned', j # Head(bus) PROVE j \in Fanned
      <3>1. j \in 1 .. last /\ (\A x \in DOMAIN bus' : bus'[x] # j) /\ \A q \in Publisher : held[q] # j
        BY <2>1, <2>6 DEF Fanned
      <3>2. ASSUME NEW x \in DOMAIN bus PROVE bus[x] # j
        <4>1. CASE x = 1
          BY <2>2, <2>6, <4>1
        <4>2. CASE x # 1
          <5>1. x - 1 \in DOMAIN bus' /\ bus'[x - 1] = bus[x]
            BY <2>2, <4>2
          <5> QED
            BY <3>1, <5>1
        <4> QED
          BY <4>1, <4>2
      <3> QED
        BY <3>1, <3>2 DEF Fanned
    <2> QED
      BY <1>4, <2>3, <2>4, <2>5, <2>6
  <1>5. ASSUME UNCHANGED <<last, held, bus, consuming>>
        PROVE  BusOK' /\ Fanned' \subseteq Fanned
    BY <1>5 DEF BusOK, Fanned
  <1>6. ASSUME UNCHANGED bus PROVE ~FanOut
    <2>1. FanOut => bus # <<>> /\ bus' = Tail(bus)
      BY DEF FanOut
    <2>2. bus # <<>> => Len(Tail(bus)) = Len(bus) - 1 /\ Len(bus) \in Nat
      BY <1>0, ResumeTail
    <2>3. bus # <<>> => Tail(bus) # bus
      BY <2>2
    <2> QED
      BY <1>6, <2>1, <2>3
  <1>7. CASE Trim \/ DoConnect \/ JoinChannels \/ ReadTail \/ Drop
    BY <1>5, <1>6, <1>7 DEF Trim, DoConnect, JoinChannels, ReadTail, Drop, streamVars,
       busVars
  <1>8. CASE Probe \/ ReadBacklog \/ ReplayError \/ ReplayOne \/ ReplayDone
    BY <1>5, <1>6, <1>8 DEF Probe, ReadBacklog, ReplayError, ReplayOne, ReplayDone,
       streamVars, busVars
  <1>9. CASE LoadPage \/ Receive \/ UNCHANGED vars
    BY <1>5, <1>6, <1>9 DEF LoadPage, Receive, vars, streamVars, busVars
  <1>10. CASE ConsumerEnds \/ ConsumerRestarts
    BY <1>1, <1>10 DEF ConsumerEnds, ConsumerRestarts, Excused
  <1> QED
    BY <1>2, <1>3, <1>4, <1>7, <1>8, <1>9, <1>10 DEF Next, Gateway

-----------------------------------------------------------------------------
(* The frames. *)

LEMMA ResumeOut ==
    ASSUME ResumeTypes
    PROVE  /\ out \in Seq(Frame) /\ Len(out) \in Nat /\ DOMAIN out = 1 .. Len(out)
           /\ \A x \in DOMAIN out : /\ out[x] \in Frame /\ out[x].id \in Nat /\ out[x].id <= last
                                    /\ out[x].kind = "event" => out[x].id # 0
           /\ last \in Nat /\ cursor \in Nat /\ cursor <= last /\ last <= MaxId
           /\ resume \in Nat /\ resume <= last /\ replayed \in Nat /\ replayed <= last
           /\ backlog \subseteq 1 .. last
           /\ applied \in [1 .. MaxId -> Nat] /\ fetched \subseteq 1 .. last
           /\ gw \in {"off", "fresh", "joined", "tail", "probed", "sending", "live"}
  <1>1. out \in Seq(Frame)
    BY DEF ResumeTypes, TypeOK, Frame
  <1>2. Len(out) \in Nat /\ DOMAIN out = 1 .. Len(out) /\ \A x \in DOMAIN out : out[x] \in Frame
    BY <1>1, ResumeElement
  <1>3. \A x \in DOMAIN out : out[x].id \in Nat
    BY <1>2, BoundAssumption DEF Frame
  <1> QED
    BY <1>1, <1>2, <1>3, BoundAssumption DEF ResumeTypes, TypeOK, Id

(* Appending a frame takes nothing from what is sent before the others. *)
LEMMA ResumeAppended ==
    ASSUME ResumeTypes, NEW f \in Frame, out' = Append(out, f),
           UNCHANGED <<applied, fetched, loaded>>
    PROVE  /\ \A x \in 1 .. Len(out) + 1 : \A j \in Int : Before(x, j) => Before(x, j)'
           /\ \A j \in Int : Sent(j) => Sent(j)'
           /\ \A j \in Int : Carries(f, j) => Sent(j)'
           /\ Len(out) \in Nat /\ DOMAIN out = 1 .. Len(out) /\ DOMAIN out' = 1 .. Len(out) + 1
           /\ \A y \in 1 .. Len(out) : out'[y] = out[y]
           /\ out'[Len(out) + 1] = f /\ Len(out') = Len(out) + 1
  <1>1. /\ Len(out) \in Nat /\ DOMAIN out = 1 .. Len(out) /\ DOMAIN out' = 1 .. Len(out) + 1
        /\ \A y \in 1 .. Len(out) : out'[y] = out[y]
        /\ out'[Len(out) + 1] = f /\ Len(out') = Len(out) + 1
    BY ResumeOut, ResumeAppend
  <1>2. ASSUME NEW x \in 1 .. Len(out) + 2, NEW j \in Int,
               ~loaded \/ Has(j) \/ \E y \in 1 .. Len(out) : y \in 1 .. x - 1 /\ Carries(out[y], j)
        PROVE  Before(x, j)'
    <2>1. CASE ~loaded \/ Has(j)
      BY <2>1 DEF Before, Has
    <2>2. ASSUME NEW y \in 1 .. Len(out), y \in 1 .. x - 1, Carries(out[y], j)
          PROVE  Before(x, j)'
      <3>1. Carries(out'[y], j)
        BY <1>1, <2>2
      <3> QED
        BY <2>2, <3>1 DEF Before, Carries
    <2> QED
      BY <1>2, <2>1, <2>2
  <1>3. ASSUME NEW x \in 1 .. Len(out) + 1, NEW j \in Int, Before(x, j) PROVE Before(x, j)'
    <2>1. x \in 1 .. Len(out) + 2 /\ 1 .. x - 1 \subseteq 1 .. Len(out)
      BY <1>1
    <2> QED
      BY <1>2, <1>3, <2>1 DEF Before
  <1>4. ASSUME NEW j \in Int, Sent(j) PROVE Sent(j)'
    <2>1. PICK n \in 1 .. Len(out) + 2 : n = Len(out) + 2
      BY <1>1
    <2>2. 1 .. Len(out) + 1 - 1 = 1 .. Len(out) /\ 1 .. Len(out) \subseteq 1 .. n - 1
      BY <1>1, <2>1
    <2>3. ~loaded \/ Has(j) \/ \E y \in 1 .. Len(out) : y \in 1 .. n - 1 /\ Carries(out[y], j)
      BY <1>4, <2>2 DEF Sent, Before
    <2>4. Before(n, j)'
      BY <1>2, <2>3
    <2>5. Len(out') + 1 = n
      BY <1>1, <2>1
    <2> QED
      BY <2>4, <2>5 DEF Sent
  <1>5. ASSUME NEW j \in Int, Carries(f, j) PROVE Sent(j)'
    <2>1. Len(out) + 1 \in 1 .. Len(out') + 1 - 1 /\ Carries(out'[Len(out) + 1], j)
      BY <1>1, <1>5
    <2> QED
      BY <2>1 DEF Sent, Before, Carries
  <1> QED
    BY <1>1, <1>3, <1>4, <1>5

LEMMA ResumeFramesAppended ==
    ASSUME ResumeTypes, FramesOK, NEW f \in Frame, out' = Append(out, f),
           UNCHANGED <<applied, fetched, loaded, cursor>>,
           f.kind = "event" => \A j \in 1 .. f.id - 1 : Sent(j),
           f.kind = "sync" => /\ \A j \in 1 .. f.id : Sent(j)
                              /\ f.id # 0 => /\ cursor <= f.id
                                             /\ \A y \in DOMAIN out : out[y].id <= f.id
    PROVE  FramesOK'
  <1> SUFFICES ASSUME NEW x \in DOMAIN out' PROVE FrameOK(x)'
    BY DEF FramesOK
  <1>1. /\ \A z \in 1 .. Len(out) + 1 : \A j \in Int : Before(z, j) => Before(z, j)'
        /\ Len(out) \in Nat /\ DOMAIN out = 1 .. Len(out) /\ DOMAIN out' = 1 .. Len(out) + 1
        /\ \A y \in 1 .. Len(out) : out'[y] = out[y]
        /\ out'[Len(out) + 1] = f
    BY ResumeAppended
  <1>2. f.id \in Int /\ \A y \in DOMAIN out : out[y].id \in Int
    BY ResumeOut, BoundAssumption DEF Frame
  <1>3. CASE x \in 1 .. Len(out)
    <2>1. out'[x] = out[x] /\ FrameOK(x) /\ x \in 1 .. Len(out) + 1 /\ out[x].id \in Int
      BY <1>1, <1>2, <1>3 DEF FramesOK
    <2>2. ASSUME out'[x].kind = "event" PROVE \A j \in 1 .. out'[x].id - 1 : Before(x, j)'
      BY <1>1, <2>1, <2>2 DEF FrameOK
    <2>3. ASSUME out'[x].kind = "sync"
          PROVE  /\ \A j \in 1 .. out'[x].id : Before(x, j)'
                 /\ out'[x].id # 0 => /\ cursor' <= out'[x].id
                                      /\ \A y \in 1 .. x - 1 : out'[y].id <= out'[x].id
      <3>1. \A j \in 1 .. out'[x].id : Before(x, j)'
        BY <1>1, <2>1, <2>3 DEF FrameOK
      <3>2. \A y \in 1 .. x - 1 : out'[y] = out[y]
        BY <1>1, <1>3
      <3> QED
        BY <2>1, <2>3, <3>1, <3>2 DEF FrameOK
    <2> QED
      BY <2>2, <2>3 DEF FrameOK
  <1>4. CASE x = Len(out) + 1
    <2>1. out'[x] = f /\ x \in 1 .. Len(out) + 1 /\ x - 1 = Len(out)
      BY <1>1, <1>4
    <2>2. \A j \in Int : Sent(j) => Before(x, j)'
      BY <1>1, <1>4, <2>1 DEF Sent
    <2>3. ASSUME f.kind = "sync", f.id # 0, NEW y \in 1 .. x - 1 PROVE out'[y].id <= f.id
      BY <1>1, <2>1, <2>3
    <2> QED
      BY <1>2, <2>1, <2>2, <2>3 DEF FrameOK
  <1> QED
    BY <1>1, <1>3, <1>4

-----------------------------------------------------------------------------
(* The handler and the browser. *)

LEMMA ResumeClientStays ==
    ASSUME ClientOK, UNCHANGED <<cursor, applied, fetched, loaded>>
    PROVE  ClientOK'
  BY DEF ClientOK, CursorMeansProcessed, AppliedOnce, Has

LEMMA ResumeBeforeStays ==
    ASSUME UNCHANGED <<out, applied, fetched, loaded>>, NEW x, NEW j
    PROVE  (Before(x, j) <=> Before(x, j)') /\ (Sent(j) <=> Sent(j)')
  BY DEF Before, Sent, Has, Carries

LEMMA ResumeFramesStay ==
    ASSUME FramesOK, UNCHANGED <<out, applied, fetched, loaded, cursor>>
    PROVE  FramesOK'
  <1>1. ASSUME NEW x \in DOMAIN out' PROVE FrameOK(x)'
    <2>1. FrameOK(x) /\ \A j : Before(x, j) <=> Before(x, j)'
      BY <1>1, ResumeBeforeStays DEF FramesOK
    <2> QED
      BY <2>1 DEF FrameOK
  <1> QED
    BY <1>1 DEF FramesOK

(* What the stream and the publishers do, and the fan-out that finds the   *)
(* connection in no channel.                                               *)
LEMMA ResumeAround ==
    ASSUME FramesOK, ReplayOK, ClientOK,
           UNCHANGED <<gw, resume, backlog, replayed, out, cursor, applied, fetched, loaded>>,
           gw \in {"tail", "sending", "live"} => Fanned' \subseteq Fanned
    PROVE  FramesOK' /\ ReplayOK' /\ ClientOK'
  <1>1. \A j : Sent(j) <=> Sent(j)'
    BY ResumeBeforeStays
  <1>2. Front' = Front
    BY DEF Front
  <1>3. ReplayOK'
    BY <1>1, <1>2 DEF ReplayOK
  <1> QED
    BY <1>3, ResumeFramesStay, ResumeClientStays

LEMMA ResumeConnection ==
    ASSUME ResumeTypes, FramesOK, ReplayOK, ClientOK, DoConnect \/ JoinChannels \/ Drop
    PROVE  FramesOK' /\ ReplayOK' /\ ClientOK'
  <1>0. UNCHANGED <<cursor, applied, fetched, loaded>>
    BY DEF DoConnect, JoinChannels, Drop, browserVars
  <1>1. ClientOK'
    BY <1>0, ResumeClientStays
  <1>2. /\ out' = <<>> /\ backlog' = {} /\ resume' <= cursor' /\ gw' \in {"off", "fresh", "joined"}
        /\ gw' # "off" => cursor' = resume'
    BY ResumeOut DEF DoConnect, JoinChannels, Drop, browserVars, ReplayOK
  <1>3. FramesOK'
    <2>1. DOMAIN out' = {}
      BY <1>2
    <2> QED
      BY <2>1 DEF FramesOK
  <1>4. ReplayOK'
    BY <1>2 DEF ReplayOK
  <1> QED
    BY <1>1, <1>3, <1>4

(* A subscription without a position, where the page is loaded later or    *)
(* has everything.                                                         *)
LEMMA ResumeReadTail ==
    ASSUME ResumeTypes, ResumeTypes', FramesOK, ReplayOK, ClientOK, ReadTail, excuses' = {},
           Fanned' \subseteq Fanned
    PROVE  FramesOK' /\ ReplayOK' /\ ClientOK'
  <1>1. /\ UNCHANGED <<last, resume, backlog, out, cursor, applied, fetched, loaded>>
        /\ gw = "joined" /\ resume = 0 /\ gw' = "tail" /\ ~LoadedTooEarly
    BY DEF ReadTail, Excused, streamVars, browserVars
  <1>2. ASSUME NEW j \in 1 .. last PROVE Sent(j)'
    <2>1. ~loaded \/ j \in fetched
      BY <1>1, <1>2 DEF LoadedTooEarly
    <2> QED
      BY <1>1, <2>1 DEF Sent, Before, Has
  <1>3. \A j \in 1 .. replayed' : Sent(j)'
    <2>1. replayed' \in Nat /\ replayed' <= last /\ last \in Nat
      BY <1>1, BoundAssumption DEF ResumeTypes, TypeOK
    <2> QED
      BY <1>2, <2>1
  <1>4. \A j \in Fanned' : Sent(j)'
    BY <1>2 DEF Fanned
  <1>5. out' = <<>> /\ backlog' = {} /\ cursor' = resume' /\ resume' <= cursor' /\ resume' = 0
    BY <1>1 DEF ReplayOK
  <1>6. ReplayOK'
    BY <1>1, <1>3, <1>4, <1>5 DEF ReplayOK
  <1> QED
    BY <1>1, <1>6, ResumeFramesStay, ResumeClientStays

LEMMA ResumeRefuse ==
    ASSUME ResumeTypes, ResumeTypes', FramesOK, ReplayOK, ClientOK, Refuse,
           gw \in {"joined", "probed"}, UNCHANGED <<last, resume, cursor, applied, fetched, loaded>>
    PROVE  FramesOK' /\ ReplayOK' /\ ClientOK'
  <1>1. /\ out' = Append(out, RefetchRequired) /\ gw' = "live" /\ backlog' = {}
        /\ resume' <= cursor'
    BY DEF Refuse, ReplayOK
  <1>2. RefetchRequired \in Frame /\ RefetchRequired.kind = "refetch"
    BY ResumeFrames, BoundAssumption DEF ResumeTypes, TypeOK
  <1>3. FramesOK'
    BY <1>1, <1>2, ResumeFramesAppended
  <1>4. \A j \in Int : Sent(j)'
    BY <1>1, <1>2, ResumeAppended DEF Carries
  <1>5. \A j \in Fanned' : Sent(j)'
    BY <1>4 DEF Fanned
  <1>6. ReplayOK'
    BY <1>1, <1>5 DEF ReplayOK
  <1> QED
    BY <1>3, <1>6, ResumeClientStays

(* A replay that is not refused reads the whole gap. *)
LEMMA ResumeReplay ==
    ASSUME ResumeTypes, ResumeTypes', LogOK, FramesOK, ReplayOK, ClientOK,
           Probe \/ ReadBacklog \/ ReplayError, excuses = {}, Fanned' \subseteq Fanned
    PROVE  FramesOK' /\ ReplayOK' /\ ClientOK'
  <1>0. /\ UNCHANGED <<last, resume, cursor, applied, fetched, loaded>>
        /\ gw \in {"joined", "probed"}
    BY DEF Probe, ReadBacklog, ReplayError, streamVars, browserVars
  <1>1. CASE Refuse
    BY <1>0, <1>1, ResumeRefuse
  <1>2. CASE Probe /\ ~Refuse
    <2>1. gw = "joined" /\ gw' = "probed" /\ UNCHANGED <<backlog, replayed, out>>
      BY <1>2 DEF Probe
    <2>2. ReplayOK'
      BY <1>0, <2>1 DEF ReplayOK
    <2> QED
      BY <1>0, <2>1, <2>2, ResumeFramesStay, ResumeClientStays
  <1>3. CASE ReadBacklog /\ ~Refuse
    <2>1. gw = "probed" /\ gw' = "sending" /\ backlog' = Missed /\ replayed' = 0 /\ out' = out
      BY <1>3 DEF ReadBacklog
    <2>2. /\ out' = <<>> /\ DOMAIN out' = {} /\ cursor' = resume' /\ resume' <= cursor'
          /\ Front' = resume'
      BY <2>1, <1>0, ResumeEmpty DEF ReplayOK, Front
    <2>3. ASSUME NEW j \in 1 .. last PROVE j \in backlog' \/ Sent(j)'
      <3>1. CASE j > resume
        <4>1. j \in resume + 1 .. last
          BY <3>1, ResumeOut
        <4>2. j \in log
          BY <2>1, <4>1 DEF LogOK
        <4> QED
          BY <2>1, <3>1, <4>2 DEF Missed
      <3>2. CASE ~(j > resume)
        <4>1. j \in 1 .. cursor
          BY <1>0, <2>2, <3>2, ResumeOut
        <4>2. ~loaded \/ Has(j)
          BY <4>1 DEF ClientOK, CursorMeansProcessed
        <4> QED
          BY <1>0, <4>2 DEF Sent, Before, Has
      <3> QED
        BY <3>1, <3>2
    <2>4. \A j \in Fanned' : j \in backlog' \/ Sent(j)'
      BY <1>0, <2>3 DEF Fanned
    <2>5. ASSUME NEW i \in backlog'
          PROVE  i > Front' /\ \A j \in 1 .. i - 1 : j \in backlog' \/ Sent(j)'
      <3>1. i \in 1 .. last /\ i > resume /\ last \in Nat
        BY <2>1, <2>5, ResumeOut DEF Missed, ResumeTypes, TypeOK
      <3>2. \A j \in 1 .. i - 1 : j \in 1 .. last
        BY <3>1
      <3> QED
        BY <1>0, <2>2, <2>3, <3>1, <3>2
    <2>6. \A j \in 1 .. replayed' : Sent(j)'
      BY <2>1
    <2>7. cursor' <= Front'
      BY <1>0, <2>2
    <2>8. ReplayOK'
      BY <2>1, <2>2, <2>4, <2>5, <2>6, <2>7 DEF ReplayOK
    <2> QED
      BY <1>0, <2>1, <2>8, ResumeFramesStay, ResumeClientStays
  <1> QED
    BY <1>1, <1>2, <1>3 DEF ReplayError

LEMMA ResumeReplayOne ==
    ASSUME ResumeTypes, ResumeTypes', FramesOK, ReplayOK, ClientOK, ReplayOne, Fanned' \subseteq Fanned
    PROVE  FramesOK' /\ ReplayOK' /\ ClientOK'
  <1>1. PICK i \in backlog :
            /\ gw = "sending" /\ \A j \in backlog : i <= j
            /\ out' = IF i \in Ring THEN out ELSE Append(out, Event(i))
            /\ replayed' = i /\ backlog' = backlog \ {i}
            /\ UNCHANGED <<last, gw, resume, cursor, applied, fetched, loaded>>
    BY DEF ReplayOne, streamVars, browserVars
  <1>2. /\ i \in 1 .. last /\ i \in 0 .. MaxId /\ i > Front /\ Front \in Nat /\ cursor <= Front
        /\ \A x \in DOMAIN out : out[x].id <= Front
        /\ \A j \in 1 .. i - 1 : j \in backlog \/ Sent(j)
        /\ \A k \in backlog : \A j \in 1 .. k - 1 : j \in backlog \/ Sent(j)
        /\ \A j \in Fanned : j \in backlog \/ Sent(j)
        /\ resume <= cursor
    <2>1. i \in 1 .. last /\ last \in Nat /\ last <= MaxId
      BY <1>1, ResumeOut
    <2>2. i \in 1 .. last /\ i \in 0 .. MaxId /\ Front \in Nat
      BY <2>1, ResumeOut, BoundAssumption DEF Front
    <2>3. /\ \A j \in Fanned : j \in backlog \/ Sent(j)
          /\ \A k \in backlog : k > Front /\ \A j \in 1 .. k - 1 : j \in backlog \/ Sent(j)
          /\ cursor <= Front /\ (\A x \in DOMAIN out : out[x].id <= Front) /\ resume <= cursor
      BY <1>1 DEF ReplayOK
    <2> QED
      BY <1>1, <2>2, <2>3
  <1>3. \A j \in 1 .. i - 1 : Sent(j)
    <2> SUFFICES ASSUME NEW j \in 1 .. i - 1 PROVE Sent(j)
      OBVIOUS
    <2>1. ~(i <= j)
      BY <1>2
    <2> QED
      BY <1>1, <1>2, <2>1
  <1>4. /\ FramesOK' /\ Sent(i)' /\ \A j \in Int : Sent(j) => Sent(j)'
        /\ \A x \in DOMAIN out' : out'[x].id <= i
    <2>1. CASE i \in Ring
      <3>1. out' = out
        BY <1>1, <2>1
      <3>2. \A j : Sent(j) <=> Sent(j)'
        BY <1>1, <3>1, ResumeBeforeStays
      <3>3. Sent(i)
        BY <2>1 DEF Sent, Before, Has
      <3>4. \A x \in DOMAIN out : out[x].id <= i
        BY <1>2, ResumeOut
      <3> QED
        BY <1>1, <3>1, <3>2, <3>3, <3>4, ResumeFramesStay
    <2>2. CASE i \notin Ring
      <3>1. /\ out' = Append(out, Event(i)) /\ Event(i) \in Frame /\ Event(i).kind = "event"
            /\ Event(i).id = i
        BY <1>1, <1>2, <2>2, ResumeFrames
      <3>2. FramesOK'
        BY <1>1, <1>3, <3>1, ResumeFramesAppended
      <3>3. /\ \A j \in Int : Sent(j) => Sent(j)'
            /\ \A j \in Int : Carries(Event(i), j) => Sent(j)'
            /\ Len(out) \in Nat /\ DOMAIN out = 1 .. Len(out) /\ DOMAIN out' = 1 .. Len(out) + 1
            /\ \A y \in 1 .. Len(out) : out'[y] = out[y]
            /\ out'[Len(out) + 1] = Event(i)
        BY <1>1, <3>1, ResumeAppended
      <3>4. Sent(i)'
        BY <1>2, <3>1, <3>3 DEF Carries
      <3>5. ASSUME NEW x \in DOMAIN out' PROVE out'[x].id <= i
        <4>1. CASE x \in 1 .. Len(out)
          <5>1. out'[x] = out[x] /\ out[x].id <= Front /\ out[x].id \in Nat
            BY <1>2, <3>3, <4>1, ResumeOut
          <5> QED
            BY <1>2, <5>1
        <4>2. CASE x = Len(out) + 1
          BY <1>2, <3>1, <3>3, <4>2
        <4> QED
          BY <3>3, <3>5, <4>1, <4>2
      <3> QED
        BY <3>2, <3>3, <3>4, <3>5
    <2> QED
      BY <2>1, <2>2
  <1>5. Front' = i
    BY <1>1, <1>2 DEF Front
  <1>6. \A j \in 1 .. replayed' : Sent(j)'
    <2>1. \A j \in 1 .. i : j \in Int /\ (j = i \/ j \in 1 .. i - 1)
      BY <1>2
    <2> QED
      BY <1>1, <1>3, <1>4, <2>1
  <1>7. \A j \in Fanned' : j \in backlog' \/ Sent(j)'
    <2>1. \A j \in Fanned : j \in Int
      BY DEF Fanned
    <2> QED
      BY <1>1, <1>2, <1>4, <2>1
  <1>8. ASSUME NEW k \in backlog'
        PROVE  k > i /\ \A j \in 1 .. k - 1 : j \in backlog' \/ Sent(j)'
    <2>1. k \in backlog /\ k # i /\ i <= k /\ k \in Int
      BY <1>1, <1>8, ResumeOut
    <2>2. ASSUME NEW j \in 1 .. k - 1 PROVE j \in backlog' \/ Sent(j)'
      <3>1. j \in Int /\ (j \in backlog \/ Sent(j))
        BY <1>2, <2>1, <2>2
      <3> QED
        BY <1>1, <1>4, <3>1
    <2> QED
      BY <1>2, <2>1, <2>2
  <1>9. cursor' <= i /\ resume' <= cursor'
    BY <1>1, <1>2, ResumeOut
  <1>10. ReplayOK'
    BY <1>1, <1>4, <1>5, <1>6, <1>7, <1>8, <1>9 DEF ReplayOK
  <1> QED
    BY <1>1, <1>4, <1>10, ResumeClientStays

LEMMA ResumeReplayDone ==
    ASSUME ResumeTypes, ResumeTypes', FramesOK, ReplayOK, ClientOK, ReplayDone, Fanned' \subseteq Fanned
    PROVE  FramesOK' /\ ReplayOK' /\ ClientOK'
  <1>1. /\ gw \in {"tail", "sending"} /\ backlog = {} /\ backlog' = backlog /\ gw' = "live"
        /\ out' = Append(out, SyncComplete(replayed))
        /\ UNCHANGED <<last, resume, cursor, applied, fetched, loaded>>
    BY DEF ReplayDone, streamVars, browserVars
  <1>2. /\ SyncComplete(replayed) \in Frame /\ SyncComplete(replayed).kind = "sync"
        /\ SyncComplete(replayed).id = replayed
    BY ResumeFrames DEF ResumeTypes, TypeOK
  <1>3. (\A j \in 1 .. replayed : Sent(j)) /\ (\A j \in Fanned : Sent(j)) /\ resume <= cursor
    BY <1>1 DEF ReplayOK
  <1>4. ASSUME replayed # 0
        PROVE  cursor <= replayed /\ \A y \in DOMAIN out : out[y].id <= replayed
    <2>1. CASE gw = "sending"
      BY <1>4, <2>1 DEF ReplayOK, Front
    <2>2. CASE gw = "tail"
      <3>1. out = <<>> /\ cursor = 0
        BY <2>2 DEF ReplayOK
      <3>2. DOMAIN out = {}
        BY <3>1
      <3>3. 0 <= replayed
        BY ResumeOut
      <3> QED
        BY <3>1, <3>2, <3>3
    <2> QED
      BY <1>1, <2>1, <2>2
  <1>5. FramesOK'
    BY <1>1, <1>2, <1>3, <1>4, ResumeFramesAppended
  <1>6. \A j \in Int : Sent(j) => Sent(j)'
    BY <1>1, <1>2, ResumeAppended
  <1>7. \A j \in Fanned' : Sent(j)'
    <2>1. \A j \in Fanned : j \in Int
      BY DEF Fanned
    <2> QED
      BY <1>3, <1>6, <2>1
  <1>8. ReplayOK'
    BY <1>1, <1>3, <1>7 DEF ReplayOK
  <1> QED
    BY <1>1, <1>5, <1>8, ResumeClientStays

(* The live tail. *)
LEMMA ResumeFanOut ==
    ASSUME ResumeTypes, ResumeTypes', FramesOK, ReplayOK, ClientOK, FanOut,
           Fanned' \subseteq Fanned \cup {Head(bus)}, \A j \in 1 .. Head(bus) - 1 : j \in Fanned,
           gw \in {"off", "fresh", "live"}
    PROVE  FramesOK' /\ ReplayOK' /\ ClientOK'
  <1>0. UNCHANGED <<last, gw, resume, backlog, replayed, cursor, applied, fetched, loaded>>
    BY DEF FanOut, streamVars, gwVars, browserVars
  <1>1. CASE gw # "live"
    <2>1. out' = out
      BY <1>1 DEF FanOut
    <2> QED
      BY <1>0, <1>1, <2>1, ResumeAround
  <1>2. CASE gw = "live"
    <2>1. out' = Append(out, Event(Head(bus))) /\ bus # <<>>
      BY <1>2 DEF FanOut
    <2>2. Head(bus) \in 1 .. MaxId
      <3>1. bus \in Seq(1 .. MaxId)
        BY DEF ResumeTypes, TypeOK, Id
      <3> QED
        BY <2>1, <3>1, ResumeTail
    <2>3. /\ Event(Head(bus)) \in Frame /\ Event(Head(bus)).kind = "event"
          /\ Event(Head(bus)).id = Head(bus)
      <3>1. Head(bus) \in 0 .. MaxId
        BY <2>2, BoundAssumption
      <3> QED
        BY <3>1, ResumeFrames
    <2>4. resume <= cursor /\ backlog = {} /\ \A j \in Fanned : Sent(j)
      BY <1>2 DEF ReplayOK
    <2>5. FramesOK'
      BY <1>0, <2>1, <2>3, <2>4, ResumeFramesAppended
    <2>6. /\ \A j \in Int : Sent(j) => Sent(j)'
          /\ \A j \in Int : Carries(Event(Head(bus)), j) => Sent(j)'
      BY <1>0, <2>1, <2>3, ResumeAppended
    <2>7. ASSUME NEW j \in Fanned' PROVE Sent(j)'
      <3>1. CASE j \in Fanned
        <4>1. j \in Int
          BY <3>1 DEF Fanned
        <4> QED
          BY <2>4, <2>6, <3>1, <4>1
      <3>2. CASE j = Head(bus)
        BY <2>2, <2>3, <2>6, <3>2 DEF Carries
      <3> QED
        BY <2>7, <3>1, <3>2
    <2>8. ReplayOK'
      BY <1>0, <1>2, <2>4, <2>7 DEF ReplayOK
    <2> QED
      BY <1>0, <2>5, <2>8, ResumeClientStays
  <1> QED
    BY <1>1, <1>2

LEMMA ResumeLoadPage ==
    ASSUME ResumeTypes, FramesOK, ReplayOK, ClientOK, LoadPage, Fanned' \subseteq Fanned
    PROVE  FramesOK' /\ ReplayOK' /\ ClientOK'
  <1>1. /\ UNCHANGED <<last, gw, resume, backlog, replayed, out, cursor, applied>>
        /\ fetched' = 1 .. last
    BY DEF LoadPage, streamVars, gwVars
  <1>2. ASSUME NEW x, NEW j \in 1 .. last PROVE Before(x, j)' /\ Sent(j)' /\ Has(j)'
    BY <1>1 DEF Before, Sent, Has
  <1>3. FramesOK'
    <2> SUFFICES ASSUME NEW x \in DOMAIN out PROVE FrameOK(x)'
      BY <1>1 DEF FramesOK
    <2>1. \A j \in 1 .. out[x].id : j \in 1 .. last
      BY ResumeOut
    <2>2. \A j \in 1 .. out[x].id - 1 : j \in 1 .. last
      BY ResumeOut
    <2>3. FrameOK(x)
      BY DEF FramesOK
    <2> QED
      BY <1>1, <1>2, <2>1, <2>2, <2>3 DEF FrameOK
  <1>4. Front' = Front
    BY <1>1 DEF Front
  <1>5. /\ \A j \in 1 .. replayed : Sent(j)'
        /\ \A j \in Fanned' : Sent(j)'
        /\ \A i \in backlog : \A j \in 1 .. i - 1 : Sent(j)'
    <2>1. \A j \in 1 .. replayed : j \in 1 .. last
      BY ResumeOut
    <2>2. \A j \in Fanned' : j \in 1 .. last
      BY <1>1 DEF Fanned
    <2>3. \A i \in backlog : \A j \in 1 .. i - 1 : j \in 1 .. last
      <3> SUFFICES ASSUME NEW i \in backlog, NEW j \in 1 .. i - 1 PROVE j \in 1 .. last
        OBVIOUS
      <3>1. i \in 1 .. last /\ last \in Nat
        BY ResumeOut
      <3> QED
        BY <3>1
    <2> QED
      BY <1>2, <2>1, <2>2, <2>3
  <1>6. ReplayOK'
    BY <1>1, <1>4, <1>5 DEF ReplayOK
  <1>7. ClientOK'
    <2>1. \A j \in 1 .. cursor : j \in 1 .. last
      BY ResumeOut
    <2>2. CursorMeansProcessed'
      BY <1>1, <1>2, <2>1 DEF CursorMeansProcessed
    <2> QED
      BY <1>1, <2>2 DEF ClientOK, AppliedOnce
  <1> QED
    BY <1>3, <1>6, <1>7

(* What a frame carries the browser has once it has read it. *)
LEMMA ResumeReceived ==
    ASSUME ResumeTypes, FramesOK, ClientOK, Receive
    PROVE  /\ out' = Tail(out) /\ Len(out) \in Nat \ {0} /\ DOMAIN out = 1 .. Len(out)
           /\ 1 \in DOMAIN out /\ DOMAIN out' = 1 .. Len(out) - 1 /\ Len(out') = Len(out) - 1
           /\ \A y \in 1 .. Len(out) - 1 : out'[y] = out[y + 1] /\ y + 1 \in DOMAIN out
           /\ \A j \in 1 .. last : Has(j) => Has(j)'
           /\ \A x \in 1 .. Len(out) : \A j \in 1 .. last : Before(x + 1, j) => Before(x, j)'
           /\ \A j \in 1 .. last : Sent(j) => Sent(j)'
  <1>1. /\ out # <<>> /\ out' = Tail(out) /\ loaded' = loaded
        /\ UNCHANGED <<last, gw, resume, backlog, replayed>>
    BY DEF Receive, ReceiveEvent, ReceiveSync, ReceiveRefetch, streamVars, gwVars
  <1>2. /\ Len(out) \in Nat \ {0} /\ DOMAIN out = 1 .. Len(out)
        /\ 1 \in DOMAIN out /\ DOMAIN out' = 1 .. Len(out) - 1 /\ Len(out') = Len(out) - 1
        /\ \A y \in 1 .. Len(out) - 1 : out'[y] = out[y + 1] /\ y + 1 \in DOMAIN out
        /\ Head(out) = out[1]
    BY <1>1, ResumeOut, ResumeTail
  <1>3. ASSUME NEW j \in 1 .. last, Has(j) PROVE Has(j)'
    <2>1. j \in 1 .. MaxId /\ applied \in [1 .. MaxId -> Nat] /\ fetched \subseteq 1 .. last
      BY ResumeOut, BoundAssumption
    <2>2. applied[j] > 0 => applied'[j] > 0
      <3>1. CASE applied' = applied
        BY <3>1
      <3>2. ASSUME NEW i, applied' = [applied EXCEPT ![i] = @ + 1]
            PROVE  applied'[j] = applied[j] \/ applied'[j] = applied[j] + 1
        BY <2>1, <3>2
      <3>3. applied[j] \in Nat
        BY <2>1
      <3>4. applied' = applied \/ \E i : applied' = [applied EXCEPT ![i] = @ + 1]
        BY DEF Receive, ReceiveEvent, ReceiveSync, ReceiveRefetch
      <3> QED
        BY <3>1, <3>2, <3>3, <3>4
    <2>3. fetched' = fetched \/ fetched' = 1 .. last
      BY DEF Receive, ReceiveEvent, ReceiveSync, ReceiveRefetch
    <2> QED
      BY <1>3, <2>1, <2>2, <2>3 DEF Has
  <1>4. ASSUME NEW j \in 1 .. last, Carries(out[1], j), loaded PROVE Has(j)'
    <2>1. CASE out[1].kind = "refetch"
      <3>1. fetched' = 1 .. last
        BY <1>2, <2>1 DEF Receive, ReceiveEvent, ReceiveSync, ReceiveRefetch
      <3> QED
        BY <3>1 DEF Has
    <2>2. CASE out[1].kind = "event" /\ out[1].id = j
      <3>1. CASE cursor # 0 /\ j <= cursor
        <4>1. j \in 1 .. cursor
          BY <3>1, ResumeOut
        <4> QED
          BY <1>3, <1>4, <4>1 DEF ClientOK, CursorMeansProcessed
      <3>2. CASE ~(cursor # 0 /\ j <= cursor)
        <4>1. applied' = [applied EXCEPT ![j] = @ + 1]
          BY <1>2, <2>2, <3>2 DEF Receive, ReceiveEvent, ReceiveSync, ReceiveRefetch
        <4>2. j \in 1 .. MaxId /\ applied \in [1 .. MaxId -> Nat]
          BY ResumeOut, BoundAssumption
        <4>3. applied'[j] = applied[j] + 1 /\ applied[j] \in Nat
          BY <4>1, <4>2
        <4> QED
          BY <4>3 DEF Has
      <3> QED
        BY <3>1, <3>2
    <2> QED
      BY <1>4, <2>1, <2>2 DEF Carries
  <1>5. ASSUME NEW x \in 1 .. Len(out), NEW j \in 1 .. last, Before(x + 1, j)
        PROVE  Before(x, j)'
    <2>1. CASE ~loaded
      BY <1>1, <2>1 DEF Before
    <2>2. CASE Has(j)
      BY <1>3, <2>2 DEF Before
    <2>3. ASSUME loaded, NEW y \in 1 .. x + 1 - 1, Carries(out[y], j) PROVE Before(x, j)'
      <3>1. CASE y = 1
        BY <1>4, <2>3, <3>1 DEF Before
      <3>2. CASE y # 1
        <4>1. y - 1 \in 1 .. x - 1 /\ y - 1 \in 1 .. Len(out) - 1 /\ y - 1 + 1 = y
          BY <1>2, <2>3, <3>2
        <4>2. out'[y - 1] = out[y]
          BY <1>2, <4>1
        <4>3. Carries(out'[y - 1], j)
          BY <2>3, <4>2
        <4> QED
          BY <4>1, <4>3 DEF Before, Carries
      <3> QED
        BY <3>1, <3>2
    <2> QED
      BY <1>5, <2>1, <2>2, <2>3 DEF Before
  <1>6. ASSUME NEW j \in 1 .. last, Sent(j) PROVE Sent(j)'
    <2>1. PICK n \in 1 .. Len(out) : n = Len(out)
      <3>1. Len(out) \in 1 .. Len(out)
        BY <1>2
      <3> QED
        BY <3>1
    <2>2. Before(n, j)'
      BY <1>5, <1>6, <2>1 DEF Sent
    <2>3. Len(out') + 1 = n
      BY <1>2, <2>1
    <2> QED
      BY <2>2, <2>3 DEF Sent
  <1> QED
    BY <1>1, <1>2, <1>3, <1>5, <1>6

LEMMA ResumeReceive ==
    ASSUME ResumeTypes, ResumeTypes', FramesOK, ReplayOK, ClientOK, Receive, Fanned' \subseteq Fanned
    PROVE  FramesOK' /\ ReplayOK' /\ ClientOK'
  <1>1. /\ out # <<>> /\ loaded' = loaded /\ UNCHANGED <<last, gw, resume, backlog, replayed>>
    BY DEF Receive, ReceiveEvent, ReceiveSync, ReceiveRefetch, streamVars, gwVars
  <1>2. /\ Len(out) \in Nat \ {0} /\ DOMAIN out = 1 .. Len(out)
        /\ 1 \in DOMAIN out /\ DOMAIN out' = 1 .. Len(out) - 1 /\ Len(out') = Len(out) - 1
        /\ \A y \in 1 .. Len(out) - 1 : out'[y] = out[y + 1] /\ y + 1 \in DOMAIN out
        /\ \A j \in 1 .. last : Has(j) => Has(j)'
        /\ \A x \in 1 .. Len(out) : \A j \in 1 .. last : Before(x + 1, j) => Before(x, j)'
        /\ \A j \in 1 .. last : Sent(j) => Sent(j)'
    BY ResumeReceived
  <1>3. Head(out) = out[1]
    BY <1>1, ResumeOut, ResumeTail
  <1>4. /\ out[1].id \in Nat /\ out[1].id <= last /\ last \in Nat /\ cursor \in Nat
        /\ out[1].kind = "event" => out[1].id # 0
    BY <1>2, ResumeOut
  <1>5. FrameOK(1) /\ \A j : Before(1, j) => ~loaded \/ Has(j)
    <2>1. FrameOK(1)
      BY <1>2 DEF FramesOK
    <2>2. 1 .. 1 - 1 = {}
      OBVIOUS
    <2> QED
      BY <2>1, <2>2 DEF Before
  <1>6. \/ cursor' = cursor /\ applied' = applied
        \/ /\ out[1].kind = "event" /\ cursor' = out[1].id /\ ~(cursor # 0 /\ out[1].id <= cursor)
           /\ applied' = [applied EXCEPT ![out[1].id] = @ + 1]
        \/ /\ out[1].kind = "sync" /\ cursor' = out[1].id /\ out[1].id # 0 /\ applied' = applied
    BY <1>3 DEF Receive, ReceiveEvent, ReceiveSync, ReceiveRefetch
  <1>7. cursor' \in {cursor, out[1].id} /\ cursor <= cursor' /\ cursor' \in Nat
    <2>1. out[1].kind = "sync" /\ out[1].id # 0 => cursor <= out[1].id
      BY <1>5 DEF FrameOK
    <2> QED
      BY <1>4, <1>6, <2>1
  <1>8. FramesOK'
    <2> SUFFICES ASSUME NEW x \in DOMAIN out' PROVE FrameOK(x)'
      BY DEF FramesOK
    <2>1. /\ x \in 1 .. Len(out) - 1 /\ x \in 1 .. Len(out) /\ x + 1 \in DOMAIN out
          /\ out'[x] = out[x + 1] /\ FrameOK(x + 1) /\ 1 \in 1 .. x + 1 - 1
      BY <1>2 DEF FramesOK
    <2>2. out[x + 1].id \in Nat /\ out[x + 1].id <= last
      BY <2>1, ResumeOut
    <2>3. ASSUME out'[x].kind = "event", NEW j \in 1 .. out'[x].id - 1 PROVE Before(x, j)'
      <3>1. j \in 1 .. last /\ Before(x + 1, j)
        BY <1>4, <2>1, <2>2, <2>3 DEF FrameOK
      <3> QED
        BY <1>2, <2>1, <3>1
    <2>4. ASSUME out'[x].kind = "sync", NEW j \in 1 .. out'[x].id PROVE Before(x, j)'
      <3>1. j \in 1 .. last /\ Before(x + 1, j)
        BY <1>4, <2>1, <2>2, <2>4 DEF FrameOK
      <3> QED
        BY <1>2, <2>1, <3>1
    <2>5. ASSUME out'[x].kind = "sync", out'[x].id # 0
          PROVE  cursor' <= out'[x].id /\ \A y \in 1 .. x - 1 : out'[y].id <= out'[x].id
      <3>1. cursor <= out[x + 1].id /\ \A y \in 1 .. x + 1 - 1 : out[y].id <= out[x + 1].id
        BY <2>1, <2>5 DEF FrameOK
      <3>2. cursor' <= out'[x].id
        BY <1>7, <2>1, <3>1
      <3>3. ASSUME NEW y \in 1 .. x - 1 PROVE out'[y].id <= out'[x].id
        <4>1. y \in 1 .. Len(out) - 1 /\ y + 1 \in 1 .. x + 1 - 1
          BY <1>2, <2>1, <3>3
        <4> QED
          BY <1>2, <2>1, <3>1, <4>1
      <3> QED
        BY <3>2, <3>3
    <2> QED
      BY <2>3, <2>4, <2>5 DEF FrameOK
  <1>9. ReplayOK'
    <2>1. gw \in {"sending", "live"} /\ resume <= cursor
      BY <1>1, ResumeOut DEF ReplayOK
    <2>2. resume' <= cursor'
      BY <1>1, <1>4, <1>7, <2>1, ResumeOut
    <2>3. gw = "sending" => \A j \in 1 .. replayed' : Sent(j)'
      <3>1. \A j \in 1 .. replayed : j \in 1 .. last
        BY ResumeOut
      <3> QED
        BY <1>1, <1>2, <3>1 DEF ReplayOK
    <2>4. \A j \in Fanned' : j \in 1 .. last /\ j \in Fanned
      BY <1>1 DEF Fanned
    <2>5. gw = "live" => \A j \in Fanned' : Sent(j)'
      BY <1>2, <2>4 DEF ReplayOK
    <2>6. gw # "sending" => backlog' = {}
      BY <1>1 DEF ReplayOK
    <2>7. ASSUME gw = "sending"
          PROVE  /\ \A j \in Fanned' : j \in backlog' \/ Sent(j)'
                 /\ \A i \in backlog' : i > Front' /\ \A j \in 1 .. i - 1 : j \in backlog' \/ Sent(j)'
                 /\ cursor' <= Front' /\ \A x \in DOMAIN out' : out'[x].id <= Front'
      <3>1. /\ \A j \in Fanned : j \in backlog \/ Sent(j)
            /\ \A i \in backlog : i > Front /\ \A j \in 1 .. i - 1 : j \in backlog \/ Sent(j)
            /\ cursor <= Front /\ \A x \in DOMAIN out : out[x].id <= Front
        BY <2>7 DEF ReplayOK
      <3>2. Front' = Front
        BY <1>1 DEF Front
      <3>3. \A j \in Fanned' : j \in backlog' \/ Sent(j)'
        BY <1>1, <1>2, <2>4, <3>1
      <3>4. ASSUME NEW i \in backlog', NEW j \in 1 .. i - 1 PROVE j \in backlog' \/ Sent(j)'
        <4>1. i \in backlog /\ i \in 1 .. last
          BY <1>1, <3>4, ResumeOut
        <4>2. j \in 1 .. last
          BY <1>4, <3>4, <4>1
        <4> QED
          BY <1>1, <1>2, <3>1, <3>4, <4>1, <4>2
      <3>5. cursor' <= Front'
        BY <1>2, <1>7, <3>1, <3>2
      <3>6. \A x \in DOMAIN out' : out'[x].id <= Front'
        BY <1>2, <3>1, <3>2
      <3> QED
        BY <1>1, <3>1, <3>2, <3>3, <3>4, <3>5, <3>6
    <2> QED
      BY <1>1, <2>1, <2>2, <2>3, <2>5, <2>6, <2>7 DEF ReplayOK
  <1>10. ClientOK'
    <2>1. ASSUME loaded, NEW j \in 1 .. cursor' PROVE Has(j)'
      <3>1. j \in 1 .. last
        BY <1>1, <2>1, BoundAssumption DEF ResumeTypes, TypeOK
      <3>2. CASE cursor' = cursor
        BY <1>2, <2>1, <3>1, <3>2 DEF ClientOK, CursorMeansProcessed
      <3>3. CASE out[1].kind = "sync" /\ cursor' = out[1].id
        <4>1. Before(1, j)
          BY <1>5, <2>1, <3>3 DEF FrameOK
        <4> QED
          BY <1>2, <1>5, <2>1, <3>1, <4>1
      <3>4. CASE /\ out[1].kind = "event" /\ cursor' = out[1].id
                 /\ applied' = [applied EXCEPT ![out[1].id] = @ + 1]
        <4>1. CASE j = out[1].id
          <5>1. j \in 1 .. MaxId /\ applied \in [1 .. MaxId -> Nat]
            BY <3>1, ResumeOut, BoundAssumption
          <5>2. applied'[j] = applied[j] + 1 /\ applied[j] \in Nat
            BY <3>4, <4>1, <5>1
          <5> QED
            BY <5>2 DEF Has
        <4>2. CASE j # out[1].id
          <5>1. j \in 1 .. out[1].id - 1
            BY <1>4, <2>1, <3>4, <4>2
          <5>2. Before(1, j)
            BY <1>5, <3>4, <5>1 DEF FrameOK
          <5> QED
            BY <1>2, <1>5, <2>1, <3>1, <5>2
        <4> QED
          BY <4>1, <4>2
      <3> QED
        BY <1>6, <3>2, <3>3, <3>4
    <2>2. CursorMeansProcessed'
      BY <1>1, <2>1 DEF CursorMeansProcessed
    <2>3. ASSUME NEW i \in Id PROVE applied'[i] <= 1 /\ (i > cursor' => applied'[i] = 0)
      <3>1. i \in 1 .. MaxId /\ applied \in [1 .. MaxId -> Nat] /\ applied[i] \in Nat
        BY <2>3, ResumeOut DEF Id
      <3>2. applied[i] <= 1 /\ (i > cursor => applied[i] = 0)
        BY <2>3 DEF ClientOK, AppliedOnce
      <3>3. i > cursor' => i > cursor
        BY <1>4, <1>7, <3>1
      <3>4. CASE applied' = applied
        BY <3>2, <3>3, <3>4
      <3>5. CASE /\ out[1].kind = "event" /\ cursor' = out[1].id
                 /\ ~(cursor # 0 /\ out[1].id <= cursor)
                 /\ applied' = [applied EXCEPT ![out[1].id] = @ + 1]
        <4>1. CASE i = out[1].id
          <5>1. applied'[i] = applied[i] + 1
            BY <3>1, <3>5, <4>1
          <5>2. i > cursor
            BY <1>4, <3>5, <4>1
          <5>3. ~(i > cursor')
            BY <1>4, <3>5, <4>1
          <5> QED
            BY <3>2, <5>1, <5>2, <5>3
        <4>2. CASE i # out[1].id
          <5>1. applied'[i] = applied[i]
            BY <3>1, <3>5, <4>2
          <5> QED
            BY <3>2, <3>3, <5>1
        <4> QED
          BY <4>1, <4>2
      <3> QED
        BY <1>6, <3>4, <3>5
    <2> QED
      BY <2>2, <2>3 DEF ClientOK, AppliedOnce
  <1> QED
    BY <1>8, <1>9, <1>10

-----------------------------------------------------------------------------
LEMMA ResumeStep ==
    ASSUME ResumeInv, [Next]_vars
    PROVE  ResumeInv'
  <1>1. ResumeTypes /\ LogOK /\ ResumeTypes' /\ LogOK'
    BY ResumeTypesStep, ResumeLogStep DEF ResumeInv
  <1>2. ASSUME excuses' = {} PROVE BusOK' /\ FramesOK' /\ ReplayOK' /\ ClientOK'
    <2>0. excuses = {} /\ BusOK /\ FramesOK /\ ReplayOK /\ ClientOK
      BY <1>2, ResumeExcuses DEF ResumeInv
    <2>1. /\ BusOK' /\ (~FanOut => Fanned' \subseteq Fanned)
          /\ FanOut => /\ Fanned' \subseteq Fanned \cup {Head(bus)}
                       /\ \A j \in 1 .. Head(bus) - 1 : j \in Fanned
                       /\ gw \in {"off", "fresh", "live"}
      BY <1>1, <1>2, <2>0, ResumeBusStep
    <2>2. CASE FanOut
      BY <1>1, <2>0, <2>1, <2>2, ResumeFanOut
    <2>3. CASE ~FanOut
      <3>0. Fanned' \subseteq Fanned
        BY <2>1, <2>3
      <3>1. ASSUME UNCHANGED <<gw, resume, backlog, replayed, out, cursor, applied, fetched, loaded>>
            PROVE  FramesOK' /\ ReplayOK' /\ ClientOK'
        BY <2>0, <3>0, <3>1, ResumeAround
      <3>2. ASSUME NEW p \in Publisher, XAdd(p) \/ Publish(p)
            PROVE  FramesOK' /\ ReplayOK' /\ ClientOK'
        BY <3>1, <3>2 DEF XAdd, Publish, gwVars, browserVars
      <3>3. CASE Trim \/ ConsumerEnds \/ ConsumerRestarts \/ UNCHANGED vars
        BY <2>1, <3>1, <3>3 DEF Trim, ConsumerEnds, ConsumerRestarts, vars, gwVars,
           browserVars
      <3>4. CASE DoConnect \/ JoinChannels \/ Drop
        BY <1>1, <2>0, <2>1, <3>4, ResumeConnection
      <3>5. CASE ReadTail
        BY <1>1, <1>2, <2>0, <2>1, <3>0, <3>5, ResumeReadTail
      <3>6. CASE Probe \/ ReadBacklog \/ ReplayError
        BY <1>1, <2>0, <2>1, <3>0, <3>6, ResumeReplay
      <3>7. CASE ReplayOne
        BY <1>1, <2>0, <2>1, <3>0, <3>7, ResumeReplayOne
      <3>8. CASE ReplayDone
        BY <1>1, <2>0, <2>1, <3>0, <3>8, ResumeReplayDone
      <3>9. CASE LoadPage
        BY <1>1, <2>0, <2>1, <3>0, <3>9, ResumeLoadPage
      <3>10. CASE Receive
        BY <1>1, <2>0, <2>1, <3>0, <3>10, ResumeReceive
      <3> QED
        BY <2>1, <2>3, <3>2, <3>3, <3>4, <3>5, <3>6, <3>7, <3>8, <3>9, <3>10
           DEF Next, Gateway
    <2> QED
      BY <2>1, <2>2, <2>3
  <1> QED
    BY <1>1, <1>2 DEF ResumeInv

(* Through any number of lost sockets, replays and refetches, for any      *)
(* number of publishers and any cap on a replay, the browser has           *)
(* everything up to its position and applied nothing twice (ws.ts),        *)
(* outside the recorded circumstances.                                     *)
THEOREM ChannelResumeSafety == Spec => []ResumeSafety
  <1>1. ResumeInv => ResumeSafety
    BY DEF ResumeInv, ResumeTypes, ResumeSafety, NoGapUnlessExcused, OnceUnlessExcused,
       ClientOK
  <1> QED
    BY <1>1, ResumeBegins, ResumeStep, PTL DEF Spec, Safe

(* A replay that answers sync.complete covers the whole gap (replay.rs),   *)
(* outside the emptied stream and the trim between the two XRANGEs.        *)
THEOREM ChannelGapIsReported == Spec => TrimmedGapIsReportedUnlessExcused
  <1>1. ResumeInv => LogOK
    BY DEF ResumeInv
  <1>2. LogOK => (gw = "probed" /\ gw' = "sending" /\ excuses \cap {"emptied", "trimmed"} = {}
                  => \A i \in resume + 1 .. last : i \in log)
    BY DEF LogOK
  <1> QED
    BY <1>1, <1>2, ResumeBegins, ResumeStep, PTL
       DEF Spec, Safe, TrimmedGapIsReportedUnlessExcused
=============================================================================
