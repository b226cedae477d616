------------------------------- MODULE SignIn -------------------------------
(***************************************************************************)
(* One user's sign-in credentials that work once: emailed codes            *)
(* (email_code_routes.rs, email_code_repo.rs), the second factor and its   *)
(* recovery codes (totp_routes.rs, totp_repo.rs, routes.rs) and reset      *)
(* links (service/mod.rs).  Requests run concurrently; every await of a    *)
(* handler that reads or writes a row ends a step.                         *)
(*                                                                         *)
(* A code, a secret, a recovery code and a link are numbers, drawn in      *)
(* order.  Digits are the pair of a secret and the step they belong to.    *)
(***************************************************************************)
EXTENDS Integers, FiniteSets

CONSTANTS
    Request,        \* requests that can be in progress at once
    MaxTries,       \* MAX_TRIES
    Skew,           \* totp.rs SKEW, in steps
    MaxStep,        \* bound: TOTP steps that pass
    Budgets         \* bound: how many credentials of each kind a behaviour draws

None == 0
Kinds == {"code", "secret", "recovery", "link"}

ASSUME SignInAssumption ==
    /\ MaxTries \in Nat \ {0} /\ Skew \in Nat /\ MaxStep \in Nat
    /\ Budgets \subseteq [Kinds -> 0..2]

Id == 1..2

VARIABLES
    step,           \* the clock, in TOTP steps
    code,           \* the row of email_sign_in_codes
    totp,           \* the row of user_totp
    recovery,       \* unused rows of totp_recovery_codes
    links,          \* rows of password_reset_tokens
    budget,         \* how many of each credential this behaviour draws
    drawn,          \* how many of each credential have been drawn
    task,           \* each request: its next step and its locals
    uses,           \* history: credentials that were accepted, with their number
    tries,          \* history: guesses compared with each emailed code
    proven,         \* history: secrets a code was shown for
    rewound,        \* history: secrets whose last used step was set back
    swapped         \* history: an enrolment was replaced under a request that had read it

signInVars == <<step, code, totp, recovery, links, budget, drawn, task, uses, tries,
                proven, rewound, swapped>>
rows == <<code, totp, recovery, links, budget, drawn>>
accounts == <<uses, tries, proven, rewound, swapped>>

NoCode == [id |-> None, attempts |-> 0, live |-> FALSE]
NoTotp == [secret |-> None, active |-> FALSE, last |-> -1]
NoTask == [pc |-> "none", code |-> None, secret |-> None, at |-> -1, spare |-> None]

Digits == Id \X (0..MaxStep)
Credential == ({"code", "recovery", "link"} \X Id) \cup ({"digits"} \X Digits)

SignInInit ==
    /\ step = 0
    /\ code = NoCode /\ totp = NoTotp /\ recovery = {} /\ links = {}
    /\ budget \in Budgets /\ drawn = [k \in Kinds |-> 0]
    /\ task = [r \in Request |-> NoTask]
    /\ uses = [c \in Credential |-> 0] /\ tries = [c \in Id |-> 0]
    /\ proven = {} /\ rewound = {} /\ swapped = FALSE

Draws(kind) ==
    /\ drawn[kind] < budget[kind] /\ drawn' = [drawn EXCEPT ![kind] = @ + 1]
    /\ UNCHANGED budget
Drawing(kind) == drawn[kind] + 1
Starts(r, t) == task[r] = NoTask /\ task' = [task EXCEPT ![r] = t]
Goes(r, label) == task' = [task EXCEPT ![r].pc = label]
Ends(r) == task' = [task EXCEPT ![r] = NoTask]
Uses(c) == uses' = [uses EXCEPT ![c] = @ + 1]

-----------------------------------------------------------------------------
(* Emailed codes. *)

(* request_email_code, send_code: one row per user, replaced. *)
RequestCode ==
    /\ Draws("code")
    /\ code' = [id |-> Drawing("code"), attempts |-> 0, live |-> TRUE]
    /\ UNCHANGED <<step, totp, recovery, links, task, accounts>>

ExpireCode ==
    /\ code.live
    /\ code' = [code EXCEPT !.live = FALSE]
    /\ UNCHANGED <<step, totp, recovery, links, budget, drawn, task, accounts>>

(* EmailCodeRepo::claim_try, its WHERE *)
MayTry == code.live /\ code.attempts < MaxTries

(* check_code with a guess: claim_try, then the comparison. *)
CheckCode(r, guess) ==
    /\ MayTry
    /\ code' = [code EXCEPT !.attempts = @ + 1]
    /\ tries' = [tries EXCEPT ![code.id] = @ + 1]
    /\ \/ guess = code.id /\ Starts(r, [NoTask EXCEPT !.pc = "factor", !.code = guess])
       \/ guess # code.id /\ task[r] = NoTask /\ UNCHANGED task
    /\ UNCHANGED <<step, totp, recovery, links, budget, drawn, uses, proven,
                   rewound, swapped>>

(* login: first_factor has accepted the password. *)
Password(r) ==
    /\ Starts(r, [NoTask EXCEPT !.pc = "factor"])
    /\ UNCHANGED <<step, rows, accounts>>

(* Mutant: the row's user is asked, not which code it holds. *)
SpendsAny(r) == code.live

(* EmailCodeRepo::consume, its WHERE *)
Spends(r) == code.live /\ code.id = task[r].code

(* spend_code, then tokens_for *)
SpendCode(r) ==
    /\ task[r].pc = "spend"
    /\ \/ /\ Spends(r)
          /\ code' = [code EXCEPT !.live = FALSE]
          /\ Uses(<<"code", task[r].code>>)
       \/ ~Spends(r) /\ UNCHANGED <<code, uses>>
    /\ Ends(r)
    /\ UNCHANGED <<step, totp, recovery, links, budget, drawn, tries, proven,
                   rewound, swapped>>

-----------------------------------------------------------------------------
(* The second factor at sign-in. *)

(* The factor has passed: a code is still to be spent, a password is not. *)
Passes(r) == IF task[r].code # None THEN Goes(r, "spend") ELSE Ends(r)

(* matching_step: the digits are of this secret, from a step near enough. *)
Matches(secret, at) ==
    secret = totp.secret /\ at >= 0 /\ at <= MaxStep /\ at - step \in -Skew..Skew

(* second_factor: no factor is asked for without an active enrolment. *)
NoFactor(r) ==
    /\ task[r].pc = "factor" /\ ~totp.active
    /\ Passes(r)
    /\ UNCHANGED <<step, rows, accounts>>

(* Digits that match the enrolment that was read. *)
ShowDigits(r, at) ==
    /\ task[r].pc = "factor" /\ totp.active
    /\ Matches(totp.secret, at)
    /\ task' = [task EXCEPT ![r].pc = "claim", ![r].secret = totp.secret, ![r].at = at]
    /\ UNCHANGED <<step, rows, accounts>>

(* Anything else is looked for among the unused recovery codes ... *)
ShowRecovery(r, c) ==
    /\ task[r].pc = "factor" /\ totp.active
    /\ c \in recovery
    /\ task' = [task EXCEPT ![r].pc = "recover", ![r].spare = c]
    /\ UNCHANGED <<step, rows, accounts>>

(* ... and is refused when it is not there. *)
ShowWrong(r) ==
    /\ task[r].pc = "factor" /\ totp.active
    /\ Ends(r)
    /\ UNCHANGED <<step, rows, accounts>>

(* Mutant: a step equal to the last one is accepted. *)
NewerLoose(at) == totp # NoTotp /\ totp.last <= at

(* TotpRepo::claim_step, its WHERE: the row, whichever secret it holds. *)
Newer(at) == totp # NoTotp /\ totp.last < at

ClaimStep(r) ==
    LET t == task[r] IN
    /\ t.pc = "claim"
    /\ \/ /\ Newer(t.at)
          /\ totp' = [totp EXCEPT !.last = t.at]
          /\ Uses(<<"digits", <<t.secret, t.at>>>>)
          /\ Passes(r)
       \/ ~Newer(t.at) /\ Ends(r) /\ UNCHANGED <<totp, uses>>
    /\ UNCHANGED <<step, code, recovery, links, budget, drawn, tries, proven,
                   rewound, swapped>>

(* consume_recovery_code: a row that another request has used meanwhile is *)
(* passed over.                                                            *)
ConsumeRecovery(r) ==
    LET c == task[r].spare IN
    /\ task[r].pc = "recover"
    /\ \/ c \in recovery /\ Uses(<<"recovery", c>>) /\ Passes(r)
       \/ c \notin recovery /\ Ends(r) /\ UNCHANGED uses
    /\ recovery' = recovery \ {c}
    /\ UNCHANGED <<step, code, totp, links, budget, drawn, tries, proven, rewound,
                   swapped>>

-----------------------------------------------------------------------------
(* Enrolment. *)

Held == {"claim", "confirm", "disable"}

(* TotpRepo::start_enrolment, its SET *)
Enrolled(secret) == [secret |-> secret, active |-> FALSE, last |-> -1]

(* enrol: start_enrolment replaces whatever enrolment there is. *)
Enrol ==
    /\ Draws("secret")
    /\ totp' = Enrolled(Drawing("secret"))
    /\ swapped' = (swapped \/ \E r \in Request : task[r].pc \in Held)
    /\ UNCHANGED <<step, code, recovery, links, task, uses, tries, proven, rewound>>

(* confirm: a code for the enrolment that was read ... *)
ShowForConfirm(r, at) ==
    /\ totp # NoTotp
    /\ Matches(totp.secret, at)
    /\ Starts(r, [NoTask EXCEPT !.pc = "confirm", !.secret = totp.secret, !.at = at])
    /\ proven' = proven \cup {totp.secret}
    /\ UNCHANGED <<step, rows, uses, tries, rewound, swapped>>

(* TotpRepo::confirm, its SET *)
Confirmed(at) == [totp EXCEPT !.active = TRUE, !.last = at]

(* ... activates the enrolment that is there now, unless there is none.    *)
Confirm(r) ==
    LET t == task[r] IN
    /\ t.pc = "confirm"
    /\ totp' = IF totp = NoTotp THEN totp ELSE Confirmed(t.at)
    /\ rewound' = IF totp'.last < totp.last THEN rewound \cup {totp.secret} ELSE rewound
    /\ Goes(r, "codes")
    /\ UNCHANGED <<step, code, recovery, links, budget, drawn, uses, tries, proven,
                   swapped>>

(* replace_recovery_codes *)
ReplaceRecovery(r) ==
    /\ task[r].pc = "codes"
    /\ Draws("recovery")
    /\ recovery' = {Drawing("recovery")}
    /\ Ends(r)
    /\ UNCHANGED <<step, code, totp, links, accounts>>

(* disable: a code for the enrolment that was read, then one transaction. *)
ShowForDisable(r, at) ==
    /\ totp # NoTotp
    /\ Matches(totp.secret, at)
    /\ Starts(r, [NoTask EXCEPT !.pc = "disable", !.secret = totp.secret])
    /\ proven' = proven \cup {totp.secret}
    /\ UNCHANGED <<step, rows, uses, tries, rewound, swapped>>

Disable(r) ==
    /\ task[r].pc = "disable"
    /\ totp' = NoTotp /\ recovery' = {}
    /\ swapped' = (swapped \/ \E q \in Request \ {r} : task[q].pc \in Held)
    /\ Ends(r)
    /\ UNCHANGED <<step, code, links, budget, drawn, uses, tries, proven, rewound>>

-----------------------------------------------------------------------------
(* Reset links. *)

(* forgot_password, generate_reset_token: earlier links stay good. *)
ForgotPassword ==
    /\ Draws("link")
    /\ links' = links \cup {Drawing("link")}
    /\ UNCHANGED <<step, code, totp, recovery, task, accounts>>

ExpireLink(l) ==
    /\ l \in links
    /\ links' = links \ {l}
    /\ UNCHANGED <<step, code, totp, recovery, budget, drawn, task, accounts>>

(* consume_reset_jti, its WHERE *)
Opens(l) == l \in links

(* reset_password: consume_reset_jti, then update_password. *)
UseLink(l) ==
    /\ Opens(l)
    /\ links' = links \ {l}
    /\ Uses(<<"link", l>>)
    /\ UNCHANGED <<step, code, totp, recovery, budget, drawn, task, tries, proven,
                   rewound, swapped>>

-----------------------------------------------------------------------------
(* A TOTP step passes. *)
PassStep ==
    /\ step < MaxStep
    /\ step' = step + 1
    /\ UNCHANGED <<rows, task, accounts>>

SignInNext ==
    \/ RequestCode \/ ExpireCode \/ Enrol \/ ForgotPassword \/ PassStep
    \/ \E l \in Id : ExpireLink(l) \/ UseLink(l)
    \/ \E r \in Request :
        \/ Password(r) \/ SpendCode(r) \/ NoFactor(r) \/ ShowWrong(r) \/ ClaimStep(r)
        \/ ConsumeRecovery(r) \/ Confirm(r) \/ ReplaceRecovery(r) \/ Disable(r)
        \/ \E guess \in Id \cup {None} : CheckCode(r, guess)
        \/ \E c \in Id : ShowRecovery(r, c)
        \/ \E at \in 0..MaxStep :
            ShowDigits(r, at) \/ ShowForConfirm(r, at) \/ ShowForDisable(r, at)

-----------------------------------------------------------------------------
(* Every variable stays in its domain. *)
SignInTypeOK ==
    /\ step \in 0..MaxStep
    /\ code \in [id : Id \cup {None}, attempts : 0..MaxTries, live : BOOLEAN]
    /\ totp \in [secret : Id \cup {None}, active : BOOLEAN, last : -1..MaxStep]
    /\ recovery \subseteq Id /\ links \subseteq Id
    /\ budget \in Budgets /\ drawn \in [Kinds -> 0..2]
    /\ task \in [Request -> [pc : {"none", "factor", "spend", "recover", "codes"} \cup Held,
                             code : Id \cup {None}, secret : Id \cup {None},
                             at : -1..MaxStep, spare : Id \cup {None}]]
    /\ uses \in [Credential -> Nat] /\ tries \in [Id -> Nat]
    /\ proven \subseteq Id /\ rewound \subseteq Id /\ swapped \in BOOLEAN

(* "A recovery code is single-use, and two concurrent attempts must not    *)
(* both succeed": so is an emailed code, and so is a reset link, through   *)
(* expiry, replacement and any overlap of requests.                        *)
SpentOnce == \A c \in {"code", "recovery", "link"} \X Id : uses[c] <= 1

(* "A correct code is only accepted once": the digits of a step sign in    *)
(* once, however many steps they stay valid for, unless a second confirm   *)
(* set the last used step back or the enrolment was replaced under a       *)
(* request that had read it (second_factor, claim_step).                   *)
DigitsOnce ==
    swapped \/ \A d \in Digits : d[1] \notin rewound => uses[<<"digits", d>>] <= 1

(* However many requests guess at the same time, MAX_TRIES guesses are     *)
(* compared with one emailed code (check_code, claim_try).                 *)
TriesBounded == \A c \in Id : tries[c] <= MaxTries

(* A code that was replaced by a newer one does not sign in, though it was *)
(* checked before (check_code against replace and spend_code).             *)
ReplacedIsDead ==
    [][\A c \in Id :
        uses'[<<"code", c>>] > uses[<<"code", c>>] => c = drawn["code"]]_signInVars

(* "The enrolment is not active until a code proves the authenticator      *)
(* actually has it", unless it was replaced between the proof and the      *)
(* update that activates it (confirm against enrol).                       *)
ActiveIsProven == totp.active => swapped \/ totp.secret \in proven

(* Codes, recovery codes, links and digits work once and within their      *)
(* tries, and a second factor is on only when it has been proven.          *)
CodeSafety == SignInTypeOK /\ SpentOnce /\ DigitsOnce /\ TriesBounded /\ ActiveIsProven
=============================================================================
