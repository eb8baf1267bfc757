------------------------------ MODULE SmsCodes ------------------------------
(***************************************************************************)
(* Verification codes by SMS: the slider token, the cooldown and the daily *)
(* limits before a code is sent, its check, and what it is checked for:    *)
(* sign-up, login by phone, binding a phone, a forgotten password          *)
(* (AuthService, UsersService).                                            *)
(*                                                                         *)
(* One phone and one network address: limits, codes and the unique phone   *)
(* column are per phone.  All keys are in Redis, every await is a step.    *)
(***************************************************************************)
EXTENDS Naturals, FiniteSets

CONSTANTS
    MaxTokens,    \* bound: tokens issued, numbered in that order
    Accounts,     \* users that exist with another phone
    None,
    Senders,      \* handlers in flight
    DailyLimit,   \* 5
    IpLimit       \* 20

Kinds == {"register", "forget"}      \* key prefixes '' and 'forget_'
(* Sign-up and login by phone create a user; an account binds the phone.   *)
Purposes == {"create", "reset"} \cup Accounts
Tokens == 1..MaxTokens
MaxCodes == MaxTokens + Cardinality(Senders)

VARIABLES
    token,      \* sms_token:*: "new" not issued, a kind, or "used"
    cooldown, daily, ipCount,  \* sms_cooldown, sms_daily_limit, sms_ip_limit
    code,       \* sms_code:phone, numbered as sent
    holder,     \* user.phone: whose it is; "created" by a code
    at, job,    \* where each handler is, and what it carries
    sent,       \* history: SMS of each kind since its count lapsed
    codes, dead \* history: codes sent; the last one passed a check

smsVars == <<token, cooldown, daily, ipCount, code, holder, at, job, sent, codes, dead>>
limits  == <<token, cooldown, daily, ipCount, sent, codes>>

NoJob == [kind |-> "register", token |-> 0, purpose |-> "none", code |-> 0]

SmsInit ==
    /\ token = [t \in Tokens |-> "new"]
    /\ cooldown = [k \in Kinds |-> FALSE]
    /\ daily = [k \in Kinds |-> 0]
    /\ ipCount = 0
    /\ code = 0
    /\ holder = None
    /\ at = [s \in Senders |-> "idle"]
    /\ job = [s \in Senders |-> NoJob]
    /\ sent = [k \in Kinds |-> 0]
    /\ codes = 0
    /\ dead = FALSE

To(s, place, j) ==
    /\ at' = [at EXCEPT ![s] = place]
    /\ job' = [job EXCEPT ![s] = j]

On(s, place) == To(s, place, job[s])
End(s) == To(s, "idle", NoJob)

(***************************************************************************)
(* generateSmsToken, generateForgetPasswordSmsToken: the latter only for a *)
(* known phone.                                                            *)
(***************************************************************************)
IssueToken(t, k) ==
    /\ token[t] = "new"
    /\ t > 1 => token[t - 1] # "new"
    /\ k = "forget" => holder # None
    /\ token' = [token EXCEPT ![t] = k]
    /\ UNCHANGED <<cooldown, daily, ipCount, code, holder, at, job, sent, codes, dead>>

(* verifyTokenKey                                                          *)
TokenRead(s, t) ==
    /\ at[s] = "idle"
    /\ token[t] \in Kinds
    /\ To(s, "take", [NoJob EXCEPT !.kind = token[t], !.token = t])
    /\ UNCHANGED <<limits, code, holder, dead>>

TokenTake(s) ==
    /\ at[s] = "take"
    /\ token' = [token EXCEPT ![job[s].token] = "used"]
    /\ On(s, "cooldown")
    /\ UNCHANGED <<cooldown, daily, ipCount, code, holder, sent, codes, dead>>

(* sendForgetPasswordSms looks for the user again.                         *)
CooldownCheck(s) ==
    /\ at[s] = "cooldown"
    /\ IF cooldown[job[s].kind] \/ (job[s].kind = "forget" /\ holder = None)
       THEN End(s) ELSE On(s, "daily")
    /\ UNCHANGED <<limits, code, holder, dead>>

WithinDaily(k) == daily[k] < DailyLimit
WithinIp == ipCount < IpLimit

DailyCheck(s) ==
    /\ at[s] = "daily"
    /\ IF WithinDaily(job[s].kind) THEN On(s, "ip") ELSE End(s)
    /\ UNCHANGED <<limits, code, holder, dead>>

IpCheck(s) ==
    /\ at[s] = "ip"
    /\ IF WithinIp THEN On(s, "sms") ELSE End(s)
    /\ UNCHANGED <<limits, code, holder, dead>>

(* sendVerificationCode: the message may be refused.                       *)
SendSms(s) ==
    LET k == job[s].kind
    IN  /\ at[s] = "sms"
        /\ \/ End(s) /\ UNCHANGED <<sent, codes>>
           \/ /\ codes < MaxCodes
              /\ codes' = codes + 1
              /\ sent' = [sent EXCEPT ![k] = @ + 1]
              /\ To(s, "store", [job[s] EXCEPT !.code = codes'])
        /\ UNCHANGED <<token, cooldown, daily, ipCount, code, holder, dead>>

(* The pipeline of _sendSmsCode.                                           *)
StoreCode(s) ==
    LET j == job[s]
    IN  /\ at[s] = "store"
        /\ code' = j.code
        /\ cooldown' = [cooldown EXCEPT ![j.kind] = TRUE]
        /\ daily' = [daily EXCEPT ![j.kind] = @ + 1]
        /\ ipCount' = ipCount + 1
        /\ dead' = FALSE
        /\ End(s)
        /\ UNCHANGED <<token, holder, sent, codes>>

(***************************************************************************)
(* verifySmsCode with the code at hand, then what the code was for.        *)
(***************************************************************************)
VerifyRead(s, p) ==
    /\ at[s] = "idle"
    /\ code # 0
    /\ To(s, "spend", [NoJob EXCEPT !.purpose = p, !.code = code])
    /\ UNCHANGED <<limits, code, holder, dead>>

(* Mutant of VerifySpend: the code is left in the cache.                   *)
VerifySpendKept(s) ==
    /\ at[s] = "spend"
    /\ dead' = (dead \/ code = job[s].code)
    /\ On(s, "find")
    /\ UNCHANGED <<limits, code, holder>>

(* Deletes the key, whichever code it holds by now.                        *)
VerifySpend(s) ==
    /\ at[s] = "spend"
    /\ code' = 0
    /\ dead' = (dead \/ code = job[s].code)
    /\ On(s, "find")
    /\ UNCHANGED <<limits, holder>>

(* Who has the phone: with a user there, sign-up and binding fail, login   *)
(* and reset have found theirs; without one, a reset fails.                *)
FindHolder(s) ==
    LET p == job[s].purpose
    IN  /\ at[s] = "find"
        /\ IF (holder = None /\ p # "reset") \/ holder = p THEN On(s, "claim") ELSE End(s)
        /\ UNCHANGED <<limits, code, holder, dead>>

(* The unique index on user.phone.                                         *)
PhoneFree(u) == holder \in {None, u}

ClaimPhone(s) ==
    LET u == IF job[s].purpose \in Accounts THEN job[s].purpose ELSE "created"
    IN  /\ at[s] = "claim"
        /\ holder' = IF PhoneFree(u) THEN u ELSE holder
        /\ End(s)
        /\ UNCHANGED <<limits, code, dead>>

(***************************************************************************)
(* Keys lapse: counts a day after they last grew.  A holder may move to    *)
(* another phone.                                                          *)
(***************************************************************************)
CooldownLapse(k) ==
    /\ cooldown[k]
    /\ cooldown' = [cooldown EXCEPT ![k] = FALSE]
    /\ UNCHANGED <<token, daily, ipCount, code, holder, at, job, sent, codes, dead>>

CodeLapse ==
    /\ code # 0
    /\ code' = 0
    /\ UNCHANGED <<limits, holder, at, job, dead>>

HolderLeaves ==
    /\ holder # None
    /\ holder' = None
    /\ UNCHANGED <<limits, code, at, job, dead>>

SmsNext ==
    \/ \E t \in Tokens, k \in Kinds : IssueToken(t, k)
    \/ \E s \in Senders :
          \/ \E t \in Tokens : TokenRead(s, t)
          \/ TokenTake(s) \/ CooldownCheck(s) \/ DailyCheck(s) \/ IpCheck(s)
          \/ SendSms(s) \/ StoreCode(s)
          \/ \E p \in Purposes : VerifyRead(s, p)
          \/ VerifySpend(s) \/ FindHolder(s) \/ ClaimPhone(s)
    \/ \E k \in Kinds : CooldownLapse(k)
    \/ CodeLapse
    \/ HolderLeaves
-----------------------------------------------------------------------------
(* Keys, rows and what handlers carry have their types.                    *)
SmsTypeOK ==
    /\ token \in [Tokens -> {"new", "used"} \cup Kinds]
    /\ cooldown \in [Kinds -> BOOLEAN]
    /\ daily \in [Kinds -> 0..MaxCodes] /\ sent \in [Kinds -> 0..MaxCodes]
    /\ ipCount \in 0..MaxCodes
    /\ code \in 0..MaxCodes /\ dead \in BOOLEAN
    /\ holder \in {None, "created"} \cup Accounts
    /\ at \in [Senders -> {"idle", "take", "cooldown", "daily", "ip", "sms", "store",
                           "spend", "find", "claim"}]
    /\ job \in [Senders -> [kind : Kinds, token : 0..MaxTokens,
                            purpose : {"none"} \cup Purposes, code : 0..MaxCodes]]

(* The daily count is read before the message and raised after it:         *)
(* requests in flight may pass the limit together, but by no more than     *)
(* there are of them.                                                      *)
SmsLimited ==
    \A k \in Kinds : sent[k] <= DailyLimit + Cardinality(Senders) - 1

(* A code that passed a check is dead: no check, however it overlaps other *)
(* checks and sends, leaves a code that can pass one more.                 *)
UsedCodesDie == dead => code = 0

(* A phone never passes from one user to another: sign-up, login and       *)
(* binding look first and write later, but only one of them gets it.       *)
PhoneKept == [][holder # None => holder' \in {None, holder}]_smsVars
=============================================================================
